---- MODULE Spec2Model ----
(***************************************************************************)
(* Model of Python_Scripts/Only_Script.py: the retrying HTTP fetcher        *)
(* (make_api_call_with_retry), the run sequence of __main__ and the         *)
(* workbook synchronisation of create_or_update_excel.                      *)
(*                                                                          *)
(* Three specifications share the variables:                                *)
(*   SpecFetch  one call of make_api_call_with_retry, attempt by attempt    *)
(*   SpecRun    one run of __main__, fetch by fetch, then the write step    *)
(*   SpecExcel  one or two calls of create_or_update_excel on a workbook    *)
(***************************************************************************)
EXTENDS Integers, Sequences, FiniteSets, TLC

VARIABLES call, run, book

vars == <<call, run, book>>

(***************************************************************************)
(* Configuration (lines 30-81)                                              *)
(***************************************************************************)
INITIAL_API_CALL_DELAY_SECONDS == 5

MAX_RETRIES == 5

BACKOFF_FACTOR == 2

\* random.uniform(0, 1) is a real in [0, 1): time is counted in ticks of
\* 1/JitterSteps second and the jitter is 0 .. JitterSteps-1 ticks.
JitterSteps == 2

(***************************************************************************)
(* make_api_call_with_retry (lines 93-110)                                  *)
(***************************************************************************)
\* What one requests.get + raise_for_status can do: return a 2xx response,
\* return a 429 or another 4xx/5xx response (raise_for_status then raises
\* HTTPError), or raise before any response exists (ConnectionError, Timeout).
Outcomes == {"ok", "http429", "httpError", "connFail"}

\* The local variable `response` before its first assignment.
Unbound == "unbound"

Idle == [phase |-> "idle"]

NewCall(max_retries, initial_delay) ==
  [max_retries   |-> max_retries,
   initial_delay |-> initial_delay,
   attempt       |-> 0,
   delay         |-> initial_delay,
   response      |-> Unbound,
   result        |-> "pending",
   sleeps        |-> <<>>,
   history       |-> <<>>]

\* line 97: `response = requests.get(...)` assigns only when get returns; when
\* it raises, `response` keeps whatever an earlier iteration left in it.
BindResponse(old, outcome) == IF outcome = "connFail" THEN old ELSE outcome

\* Faulty variant of line 104: additive growth instead of multiplicative.
NextDelayAdditive(delay) == delay + BACKOFF_FACTOR

\* line 104: delay *= BACKOFF_FACTOR
NextDelay(delay) == delay * BACKOFF_FACTOR

\* line 103: time.sleep(delay + random.uniform(0, 1)), in ticks.
SleepTicks(delay, jitter) == delay * JitterSteps + jitter

\* Faulty variant of line 95: one iteration too many.
LoopExhaustedOffByOne(attempt, max_retries) == attempt > max_retries

\* line 95: `for attempt in range(max_retries)` has no iteration left.
LoopExhausted(attempt, max_retries) == attempt >= max_retries

\* lines 100-108: the except block, entered with `response` as bound so far.
ExceptHandler(st, jitter) ==
  IF st.response = Unbound
    THEN [st EXCEPT !.result = "raised"]      \* line 101: UnboundLocalError
    ELSE IF st.response = "http429"
      THEN [st EXCEPT !.sleeps = Append(@, SleepTicks(st.delay, jitter)),
                      !.delay  = NextDelay(@)]
      ELSE [st EXCEPT !.result = "None"]      \* line 108

\* lines 109-110: the loop ran out, return None.
AfterLoop(st) ==
  IF st.result = "pending" /\ LoopExhausted(st.attempt, st.max_retries)
    THEN [st EXCEPT !.result = "None"]
    ELSE st

\* One iteration of the loop (lines 95-108), and the exit of the loop after
\* the last one (lines 109-110).
AttemptStep(st, outcome, jitter) ==
  LET s1 == [st EXCEPT !.attempt  = @ + 1,
                       !.history  = Append(@, outcome),
                       !.response = BindResponse(@, outcome)]
      s2 == IF outcome = "ok"
              THEN [s1 EXCEPT !.result = "response"]     \* line 99
              ELSE ExceptHandler(s1, jitter)
  IN  AfterLoop(s2)

Requests(st) == Len(st.history)

(***************************************************************************)
(* SpecFetch: one call, one action per attempt                              *)
(***************************************************************************)
InitFetch ==
  /\ \E m \in 1..MAX_RETRIES, d \in {1, INITIAL_API_CALL_DELAY_SECONDS} :
       call = NewCall(m, d)
  /\ run = Idle
  /\ book = Idle

Attempt ==
  /\ call.result = "pending"
  /\ ~LoopExhausted(call.attempt, call.max_retries)
  /\ \E o \in Outcomes, j \in 0..(JitterSteps - 1) :
       call' = AttemptStep(call, o, j)
  /\ UNCHANGED <<run, book>>

NextFetch == Attempt

\* Every request is eventually answered or fails: the call keeps stepping.
SpecFetch == InitFetch /\ [][NextFetch]_vars /\ WF_vars(NextFetch)

(***************************************************************************)
(* Claims about make_api_call_with_retry (checked under SpecFetch)          *)
(***************************************************************************)
RECURSIVE Pow(_, _)
Pow(b, n) == IF n = 0 THEN 1 ELSE b * Pow(b, n - 1)

RECURSIVE SumSeq(_)
SumSeq(s) == IF s = <<>> THEN 0 ELSE Head(s) + SumSeq(Tail(s))

RECURSIVE GeomSum(_)
GeomSum(n) == IF n = 0 THEN 0 ELSE Pow(BACKOFF_FACTOR, n - 1) + GeomSum(n - 1)

OtherFailures == {"httpError", "connFail"}

\* C1: an attempt that fails for a reason other than HTTP 429 (no response
\* received, or a non-2xx non-429 status) is the last request of the call and
\* the call has ended without a response, whatever the earlier attempts were.
\* (An exception leaving the call is counted as an ended call here; whether the
\* call may raise at all is C2.)
C1_OtherFailureEndsCall ==
  \A i \in 1..Len(call.history) :
    call.history[i] \in OtherFailures =>
      /\ i = Len(call.history)
      /\ call.result \in {"None", "raised"}

\* C2: whatever the attempts' outcomes, the call yields the successful response
\* or the failure value None, never an exception that leaves the function.
C2_ReturnsResponseOrNone == call.result \in {"pending", "response", "None"}

AllRateLimited ==
  /\ Len(call.history) = call.max_retries
  /\ \A i \in 1..Len(call.history) : call.history[i] = "http429"

C3_Bounded ==
  /\ Requests(call) <= call.max_retries
  /\ AllRateLimited => call.result = "None"

\* C3: a call ends, issues at most max_retries requests, and returns None when
\* every one of the max_retries attempts was answered with HTTP 429.
C3_TerminatesWithinMaxRetries == [](C3_Bounded) /\ <>(call.result # "pending")

C3_Witness ==
  /\ call.max_retries = MAX_RETRIES
  /\ AllRateLimited
  /\ call.result = "None"

RateLimitedThenOk(k) ==
  /\ Len(call.history) = k
  /\ call.history[k] = "ok"
  /\ \A i \in 1..(k - 1) : call.history[i] = "http429"

\* C4: HTTP 429 on attempts 1..k-1 and a success on attempt k (2 <= k <=
\* max_retries) returns the response; the sleep before the j-th retry is at
\* least initial_delay * BACKOFF_FACTOR^(j-1) and the total sleep at least
\* initial_delay * (1 + BACKOFF_FACTOR + ... + BACKOFF_FACTOR^(k-2)).
C4_BackoffDelays ==
  \A k \in 2..call.max_retries :
    RateLimitedThenOk(k) =>
      /\ call.result = "response"
      /\ Len(call.sleeps) = k - 1
      /\ \A j \in 1..(k - 1) :
           call.sleeps[j] >=
             call.initial_delay * Pow(BACKOFF_FACTOR, j - 1) * JitterSteps
      /\ SumSeq(call.sleeps) >=
           call.initial_delay * GeomSum(k - 1) * JitterSteps

C4_Witness ==
  /\ call.max_retries = MAX_RETRIES
  /\ call.initial_delay = INITIAL_API_CALL_DELAY_SECONDS
  /\ RateLimitedThenOk(3)
  /\ call.result = "response"
  /\ SumSeq(call.sleeps) >=
       (INITIAL_API_CALL_DELAY_SECONDS
          + INITIAL_API_CALL_DELAY_SECONDS * BACKOFF_FACTOR) * JitterSteps

(***************************************************************************)
(* Sheet names and order (lines 59-81)                                      *)
(***************************************************************************)
CURRENT_PORTFOLIO_SHEET_NAME == "Current Portfolio"

TRANSACTIONS_SHEET_NAME == "Transactions"

EXECUTIVE_DASHBOARD_SHEET_NAME == "Executive Dashboard"

MARKET_OVERVIEW_SHEET_NAME == "Market Overview"

GLOBAL_METRICS_SHEET_NAME == "Global Metrics"

FEAR_GREED_INDEX_SHEET_NAME == "Fear & Greed Index"

\* The symbols of HISTORY_COIN_IDS (lines 38-44), in insertion order.
HISTORY_SYMBOLS == <<"BTC", "ETH", "BNB", "SOL", "SUI">>

\* line 647: f"{symbol} History (1 Month)"
HistorySheetName(symbol) == symbol \o " History (1 Month)"

SHEET_ORDER ==
  <<EXECUTIVE_DASHBOARD_SHEET_NAME, MARKET_OVERVIEW_SHEET_NAME,
    GLOBAL_METRICS_SHEET_NAME, FEAR_GREED_INDEX_SHEET_NAME,
    "BTC History (1 Month)", "ETH History (1 Month)", "BNB History (1 Month)",
    "SOL History (1 Month)", "SUI History (1 Month)",
    TRANSACTIONS_SHEET_NAME, CURRENT_PORTFOLIO_SHEET_NAME>>

Range(s) == {s[i] : i \in DOMAIN s}

MaxOf(S) == CHOOSE m \in S : \A n \in S : n <= m

(***************************************************************************)
(* The workbook store as the code uses it.  A worksheet is its cells: a      *)
(* function from <<row, column>> to the cell's value; a cell holding None    *)
(* is no cell.  A workbook is the sheet names in order and each sheet's      *)
(* cells.  All cell values are strings.                                      *)
(***************************************************************************)
\* Python None / NaN.
None == "<None>"

EmptySheet == [rc \in {} |-> None]

\* ws.max_row: 1 for a sheet without cells.
max_row(ws) == IF DOMAIN ws = {} THEN 1 ELSE MaxOf({rc[1] : rc \in DOMAIN ws})

\* ws.max_column: 1 for a sheet without cells.
max_column(ws) == IF DOMAIN ws = {} THEN 1 ELSE MaxOf({rc[2] : rc \in DOMAIN ws})

\* cell.value
CellValue(ws, r, c) == IF <<r, c>> \in DOMAIN ws THEN ws[<<r, c>>] ELSE None

\* ws.cell(row=r, column=c, value=v) and ws['A1'] = v
SetCell(ws, r, c, v) ==
  [rc \in (IF v = None THEN DOMAIN ws \ {<<r, c>>} ELSE DOMAIN ws \cup {<<r, c>>})
     |-> IF rc = <<r, c>> THEN v ELSE ws[rc]]

\* The cells of one row holding `values` from column 1 on.
RowCells(r, values) ==
  [rc \in {<<r, c>> : c \in {k \in 1..Len(values) : values[k] # None}}
     |-> values[rc[2]]]

\* ws.append(values): the row after the last used one (row 1 on a sheet
\* without cells).
WsAppend(ws, values) ==
  LET r == IF DOMAIN ws = {} THEN 1 ELSE max_row(ws) + 1
  IN  RowCells(r, values) @@ ws

\* Faulty variant of ws.delete_rows(idx, amount): nothing is deleted.
DeleteRowsNothing(ws, idx, amount) == ws

\* ws.delete_rows(idx, amount): rows idx .. idx+amount-1 go, the rows below
\* move up.
DeleteRows(ws, idx, amount) ==
  LET kept  == {rc \in DOMAIN ws : rc[1] < idx}
      moved == {rc \in DOMAIN ws : rc[1] >= idx + amount}
  IN  [rc \in kept \cup {<<q[1] - amount, q[2]>> : q \in moved}
         |-> IF rc \in kept THEN ws[rc] ELSE ws[<<rc[1] + amount, rc[2]>>]]

\* A DataFrame of a generated category: its column names and its rows.
EmptyFrame == [columns |-> <<>>, rows |-> <<>>]

\* df.empty
IsEmptyFrame(df) == df.columns = <<>> \/ df.rows = <<>>

\* The pattern of lines 485-493 (and 575-583, 612-619, 650-657): clear the
\* sheet, append the header, write the data rows from row 2 on.
RECURSIVE WriteRows(_, _, _)
WriteRows(ws, rows, r) ==
  IF rows = <<>> THEN ws
  ELSE WriteRows(RowCells(r, Head(rows)) @@ ws, Tail(rows), r + 1)

\* Faulty variant of lines 485-493: the header row is not written.
ReplaceWithTableNoHeader(ws, df) ==
  WriteRows(DeleteRows(ws, 1, max_row(ws)), df.rows, 2)

ReplaceWithTable(ws, df) ==
  LET cleared == DeleteRows(ws, 1, max_row(ws))
      headed  == WsAppend(cleared, df.columns)
  IN  WriteRows(headed, df.rows, 2)

\* wb.sheetnames
HasSheet(wb, name) == name \in Range(wb.names)

\* wb.create_sheet(name): a new sheet without cells, after the others.
CreateSheet(wb, name) ==
  [names |-> Append(wb.names, name),
   cells |-> (name :> EmptySheet) @@ wb.cells]

\* wb[name] changed to ws.
PutSheet(wb, name, ws) == [wb EXCEPT !.cells[name] = ws]

\* Workbook() with its default sheet removed (lines 376-378).
NewWorkbook == [names |-> <<>>, cells |-> [n \in {} |-> EmptySheet]]

\* wb.sheetnames.index(name)  (0-based, as in the code)
IndexOf(names, name) == (CHOOSE i \in DOMAIN names : names[i] = name) - 1

\* Faulty variant of wb.move_sheet: the sheet stays where it is.
MoveSheetNowhere(names, name, offset) == names

\* wb.move_sheet(ws, offset): the sheet is taken out and inserted at
\* index + offset (list.insert clips a position past the end).
MoveSheet(names, name, offset) ==
  LET idx  == IndexOf(names, name)
      rest == [i \in 1..(Len(names) - 1) |->
                 IF i <= idx THEN names[i] ELSE names[i + 1]]
      raw  == idx + offset
      pos  == IF raw > Len(rest) THEN Len(rest) ELSE IF raw < 0 THEN 0 ELSE raw
  IN  [i \in 1..Len(names) |->
         IF i <= pos THEN rest[i]
         ELSE IF i = pos + 1 THEN name
         ELSE rest[i - 1]]

(***************************************************************************)
(* create_or_update_excel (lines 353-780)                                   *)
(***************************************************************************)
\* Faulty variant of lines 364-378: whatever the file holds is used.
LoadOrCreateNoFallback(file) == file.wb

\* lines 364-378: a missing file, or one load_workbook cannot read, gives a
\* new workbook without sheets.
LoadOrCreate(file) == IF file.state = "ok" THEN file.wb ELSE NewWorkbook

\* line 387
TransactionsHeader ==
  <<"Date", "Coin ID", "Type (Buy/Sell)", "Quantity", "Price (USD)",
    "Total Cost/Revenue (USD)">>

\* line 397
PortfolioHeader ==
  <<"Coin ID", "Current Value (USD)", "Purchase Price (USD)", "Quantity",
    "P/L (USD)", "P/L Ratio", "Total Value (USD)", "Symbol", "Location",
    "AirDrop or Invest">>

\* lines 382-407, for one sheet name.
EnsureSheet(wb, name) ==
  IF HasSheet(wb, name) THEN wb
  ELSE LET made == CreateSheet(wb, name)
       IN  IF name = TRANSACTIONS_SHEET_NAME
             THEN PutSheet(made, name, WsAppend(made.cells[name], TransactionsHeader))
           ELSE IF name = CURRENT_PORTFOLIO_SHEET_NAME
             THEN PutSheet(made, name, WsAppend(made.cells[name], PortfolioHeader))
           ELSE made

\* lines 381-407: every sheet of SHEET_ORDER exists afterwards.
RECURSIVE EnsureSheetsFrom(_, _)
EnsureSheetsFrom(wb, i) ==
  IF i > Len(SHEET_ORDER) THEN wb
  ELSE EnsureSheetsFrom(EnsureSheet(wb, SHEET_ORDER[i]), i + 1)

EnsureSheets(wb) == EnsureSheetsFrom(wb, 1)

\* all_data.get(key) is a DataFrame that is not empty.
HasFresh(all_data, key) ==
  key \in DOMAIN all_data /\ ~IsEmptyFrame(all_data[key])

\* lines 305-313
GlobalMetricNames ==
  <<"Total Market Cap (USD)", "Total 24h Volume (USD)", "Bitcoin Dominance (%)",
    "Ethereum Dominance (%)", "Active Cryptocurrencies", "Total Markets",
    "Market Cap Change 24h (%)">>

\* '%' in metric, 'USD' in metric (lines 438-440)
HasPercent(metric) ==
  metric \in {"Bitcoin Dominance (%)", "Ethereum Dominance (%)",
              "Market Cap Change 24h (%)"}

HasUSD(metric) ==
  metric \in {"Total Market Cap (USD)", "Total 24h Volume (USD)"}

\* f"{v:.2f}" on the numeric values the model uses.
Fixed2(v) ==
  CASE v = "52.4"  -> "52.40"
    [] v = "17.25" -> "17.25"
    [] v = "-1.5"  -> "-1.50"
    [] OTHER       -> v \o ".00"

\* f"{v:,.0f}" and f"{int(v):,}" on the numeric values the model uses.
Grouped(v) ==
  CASE v = "2500" -> "2,500"
    [] v = "9000" -> "9,000"
    [] OTHER      -> v

\* lines 436-443
DisplayMetric(metric, value) ==
  IF value = None THEN "N/A"
  ELSE IF HasPercent(metric) THEN Fixed2(value) \o "%"
  ELSE IF HasUSD(metric) THEN "$" \o Grouped(value)
  ELSE Grouped(value)

\* lines 445-447: metric names in column A and display values in column B,
\* from row 6 on.
RECURSIVE WriteMetrics(_, _, _)
WriteMetrics(ws, rows, i) ==
  IF rows = <<>> THEN ws
  ELSE LET row == Head(rows)
           a   == SetCell(ws, i, 1, row[1])
           b   == SetCell(a, i, 2, DisplayMetric(row[1], row[2]))
       IN  WriteMetrics(b, Tail(rows), i + 1)

OrNA(v) == IF v = None THEN "N/A" ELSE v

\* lines 413-479: the dashboard is cleared and written on every call.
UpdateDashboard(wb, all_data, now) ==
  LET ws0 == wb.cells[EXECUTIVE_DASHBOARD_SHEET_NAME]
      ws1 == DeleteRows(ws0, 1, max_row(ws0))
      ws2 == SetCell(ws1, 1, 1, "Cryptocurrency Market Dashboard")
      ws3 == SetCell(ws2, 3, 1, "Generated: " \o now)
      ws4 == SetCell(ws3, 5, 1, "Key Market Metrics")
      ws5 == IF HasFresh(all_data, "global_metrics")
               THEN WriteMetrics(ws4, all_data["global_metrics"].rows, 6)
               ELSE SetCell(ws4, 6, 1, "Unable to fetch global metrics")
      ws6 == SetCell(ws5, 5, 4, "Market Sentiment")
      ws7 == IF HasFresh(all_data, "fear_greed_index")
               THEN LET rows   == all_data["fear_greed_index"].rows
                        latest == rows[Len(rows)]
                        d6 == SetCell(ws6, 6, 4,
                                "Fear & Greed Index: " \o OrNA(latest[2]))
                    IN  SetCell(d6, 7, 4, "Classification: " \o OrNA(latest[3]))
               ELSE SetCell(ws6, 6, 4, "Unable to fetch sentiment data")
  IN  PutSheet(wb, EXECUTIVE_DASHBOARD_SHEET_NAME, ws7)

\* lines 482-493, 573-583, 610-619: a generated sheet is replaced when its
\* category has fresh data and not touched otherwise.
UpdateGenerated(wb, all_data, key, name) ==
  IF HasFresh(all_data, key)
    THEN PutSheet(wb, name, ReplaceWithTable(wb.cells[name], all_data[key]))
    ELSE wb

\* all_data.get('historical_data', {})
HistoricalData(all_data) ==
  IF "historical_data" \in DOMAIN all_data
    THEN all_data["historical_data"]
    ELSE [s \in {} |-> EmptyFrame]

\* lines 646-657, for one symbol of the dictionary.
UpdateHistory(wb, hist, symbol) ==
  IF /\ symbol \in DOMAIN hist
     /\ HasSheet(wb, HistorySheetName(symbol))
     /\ ~IsEmptyFrame(hist[symbol])
    THEN PutSheet(wb, HistorySheetName(symbol),
                  ReplaceWithTable(wb.cells[HistorySheetName(symbol)], hist[symbol]))
    ELSE wb

RECURSIVE UpdateHistoriesFrom(_, _, _)
UpdateHistoriesFrom(wb, hist, i) ==
  IF i > Len(HISTORY_SYMBOLS) THEN wb
  ELSE UpdateHistoriesFrom(UpdateHistory(wb, hist, HISTORY_SYMBOLS[i]), hist, i + 1)

UpdateHistories(wb, all_data) == UpdateHistoriesFrom(wb, HistoricalData(all_data), 1)

(***************************************************************************)
(* The 'Current Portfolio' merge (lines 724-770)                            *)
(***************************************************************************)
\* line 753
portfolio_cols ==
  <<"Current Value (USD)", "Symbol", "Location", "Quantity",
    "Purchase Price (USD)", "Total Value (USD)", "P/L (USD)", "P/L Ratio",
    "Airdrop or Invest">>

\* [cell.value for cell in ws[r]]
SheetRow(ws, r) == [c \in 1..max_column(ws) |-> CellValue(ws, r, c)]

\* dict(zip(header, row)): a later column of the same name wins.
ZipDict(header, row) ==
  [h \in Range(header) |->
     row[MaxOf({c \in DOMAIN header : header[c] = h})]]

\* A DataFrame indexed by 'Coin ID': the set of its other columns, and per
\* row the index value and the value of each column.
EmptyPortfolioFrame == [columns |-> {}, rows |-> <<>>]

\* lines 729-739: the sheet's rows as a DataFrame indexed by 'Coin ID', or an
\* empty DataFrame when there is no data row or no 'Coin ID' column.
ExistingPortfolio(ws) ==
  LET header == SheetRow(ws, 1)
      data   == IF max_row(ws) > 1
                  THEN [i \in 1..(max_row(ws) - 1) |->
                          ZipDict(header, SheetRow(ws, i + 1))]
                  ELSE <<>>
      cols   == IF data = <<>> THEN {} ELSE Range(header)
  IN  IF "Coin ID" \in cols
        THEN [columns |-> cols \ {"Coin ID"},
              rows    |-> [i \in DOMAIN data |->
                             [id   |-> data[i]["Coin ID"],
                              vals |-> [c \in cols \ {"Coin ID"} |-> data[i][c]]]]]
        ELSE EmptyPortfolioFrame

\* df[col] gets a column it does not have yet, holding `fill` in every row.
WithColumn(df, col, fill) ==
  IF col \in df.columns THEN df
  ELSE [columns |-> df.columns \cup {col},
        rows    |-> [i \in DOMAIN df.rows |->
                       [df.rows[i] EXCEPT !.vals = (col :> fill) @@ @]]]

\* Faulty variant of line 746: the coin is never found.
HasCoinNever(df, coin_id) == FALSE

\* line 746: coin_id in merged_portfolio_df.index
HasCoin(df, coin_id) == \E i \in DOMAIN df.rows : df.rows[i].id = coin_id

\* lines 746-751, for one row of the fresh price table.
MergeCoin(df, coin_id, price) ==
  LET wide == WithColumn(df, "Current Value (USD)", None)
  IN  IF HasCoin(df, coin_id)
        THEN [wide EXCEPT !.rows =
                [i \in DOMAIN wide.rows |->
                   IF wide.rows[i].id = coin_id
                     THEN [wide.rows[i] EXCEPT !.vals["Current Value (USD)"] = price]
                     ELSE wide.rows[i]]]
        ELSE [wide EXCEPT !.rows =
                Append(@, [id   |-> coin_id,
                           vals |-> [c \in wide.columns |->
                                       IF c = "Current Value (USD)"
                                         THEN price ELSE None]])]

\* lines 745-751
RECURSIVE MergeCoins(_, _)
MergeCoins(df, fresh_rows) ==
  IF fresh_rows = <<>> THEN df
  ELSE MergeCoins(MergeCoin(df, Head(fresh_rows)[1], Head(fresh_rows)[2]),
                  Tail(fresh_rows))

\* lines 754-756: a column of portfolio_cols the frame lacks is added, empty.
RECURSIVE FillPortfolioCols(_, _)
FillPortfolioCols(df, i) ==
  IF i > Len(portfolio_cols) THEN df
  ELSE FillPortfolioCols(WithColumn(df, portfolio_cols[i], ""), i + 1)

\* lines 758-759: reset_index gives the index back as the column 'Coin ID';
\* then 'Coin ID' and the columns of portfolio_cols, in that order; every
\* other column is left out.
FinalPortfolioFrame(df) ==
  [columns |-> <<"Coin ID">> \o portfolio_cols,
   rows    |-> [i \in DOMAIN df.rows |->
                  <<df.rows[i].id>> \o
                  [k \in DOMAIN portfolio_cols |-> df.rows[i].vals[portfolio_cols[k]]]]]

\* lines 761-764: the sheet is cleared and the merged frame written with its
\* header in row 1.
WritePortfolio(ws, frame) ==
  WriteRows(DeleteRows(ws, 1, max_row(ws)), <<frame.columns>> \o frame.rows, 1)

\* lines 725-764
MergePortfolioSheet(ws, fresh) ==
  LET existing == ExistingPortfolio(ws)
      merged   == MergeCoins(existing, fresh.rows)
      filled   == FillPortfolioCols(merged, 1)
  IN  WritePortfolio(ws, FinalPortfolioFrame(filled))

UpdatePortfolio(wb, all_data) ==
  IF HasFresh(all_data, "current_portfolio")
    THEN PutSheet(wb, CURRENT_PORTFOLIO_SHEET_NAME,
                  MergePortfolioSheet(wb.cells[CURRENT_PORTFOLIO_SHEET_NAME],
                                      all_data["current_portfolio"]))
    ELSE wb

\* Faulty variant of lines 719-722: a row is written under the operator's rows.
UpdateTransactionsAppend(wb, all_data) ==
  PutSheet(wb, TRANSACTIONS_SHEET_NAME,
           WsAppend(wb.cells[TRANSACTIONS_SHEET_NAME], <<"synced">>))

\* lines 719-722: the sheet is looked up and nothing is written to it.
UpdateTransactions(wb, all_data) == wb

\* lines 773-777
RECURSIVE ReorderFrom(_, _)
ReorderFrom(names, i) ==
  IF i > Len(SHEET_ORDER) THEN names
  ELSE LET name == SHEET_ORDER[i]
       IN  IF name \in Range(names) /\ IndexOf(names, name) # i - 1
             THEN ReorderFrom(MoveSheet(names, name, (i - 1) - IndexOf(names, name)),
                              i + 1)
             ELSE ReorderFrom(names, i + 1)

ReorderSheets(wb) == [wb EXCEPT !.names = ReorderFrom(wb.names, 1)]

\* The workbook create_or_update_excel builds in memory (lines 364-777).
SynchronizedWorkbook(file, all_data, now) ==
  LET wb0 == EnsureSheets(LoadOrCreate(file))
      wb1 == UpdateDashboard(wb0, all_data, now)
      wb2 == UpdateGenerated(wb1, all_data, "market_overview",
                             MARKET_OVERVIEW_SHEET_NAME)
      wb3 == UpdateGenerated(wb2, all_data, "global_metrics",
                             GLOBAL_METRICS_SHEET_NAME)
      wb4 == UpdateGenerated(wb3, all_data, "fear_greed_index",
                             FEAR_GREED_INDEX_SHEET_NAME)
      wb5 == UpdateHistories(wb4, all_data)
      wb6 == UpdatePortfolio(UpdateTransactions(wb5, all_data), all_data)
  IN  ReorderSheets(wb6)

\* create_or_update_excel: the file after wb.save (line 779).
CreateOrUpdateExcel(file, all_data, now) ==
  [state |-> "ok", wb |-> SynchronizedWorkbook(file, all_data, now)]

(***************************************************************************)
(* Inputs of create_or_update_excel: tables as the normalizers shape them   *)
(***************************************************************************)
\* More sheets than this are not missing from a loaded workbook.
MaxMissing == 1

\* More data rows than this the operator's portfolio sheet does not hold.
MaxPortfolioRows == 2

\* lines 148-166 (columns_map values)
MarketOverviewColumns ==
  <<"Rank", "Name", "Symbol", "Price (USD)", "Market Cap", "24h Volume",
    "24h Change (%)", "7d Change (%)", "30d Change (%)", "1y Change (%)",
    "Circulating Supply", "Total Supply", "Max Supply", "All-Time High",
    "ATH Date", "All-Time Low", "ATL Date">>

\* lines 234-255
HistoryColumns ==
  <<"Date", "Price", "Volume", "Market Cap", "Daily Return (%)", "7-Day MA",
    "30-Day MA", "Volatility (7d)">>

\* line 283
FearGreedColumns == <<"Date", "Fear & Greed Index", "Classification">>

\* line 345
GlobalMetricsColumns == <<"Metric", "Value">>

\* A table of `n` rows whose cells all hold `tag`, but for the key in column 1.
TaggedTable(columns, n, tag) ==
  [columns |-> columns,
   rows    |-> [r \in 1..n |->
                  [c \in DOMAIN columns |->
                     IF c = 1 THEN ToString(r) ELSE tag]]]

\* The frame of get_global_metrics (lines 304-327); a metric missing from the
\* payload is NaN.
GlobalMetricsTable(active) ==
  [columns |-> GlobalMetricsColumns,
   rows    |-> <<<<GlobalMetricNames[1], "2500">>,
                 <<GlobalMetricNames[2], "120">>,
                 <<GlobalMetricNames[3], "52.4">>,
                 <<GlobalMetricNames[4], "17.25">>,
                 <<GlobalMetricNames[5], active>>,
                 <<GlobalMetricNames[6], "800">>,
                 <<GlobalMetricNames[7], "-1.5">>>>]

\* The first ids of PORTFOLIO_COIN_IDS (lines 32-35), and the price of each.
FetchedCoinIds == <<"bitcoin", "ethereum", "solana">>

PriceOf(coin_id) ==
  CASE coin_id = "bitcoin"  -> "100"
    [] coin_id = "ethereum" -> "200"
    [] OTHER                -> "300"

\* lines 792-800: one row per coin whose price is not None; no row gives
\* DataFrame([]), a frame without columns.
PriceTable(priced) ==
  LET ids == SelectSeq(FetchedCoinIds, LAMBDA x : x \in priced)
  IN  IF ids = <<>> THEN EmptyFrame
      ELSE [columns |-> <<"Coin ID", "Current Value (USD)">>,
            rows    |-> [i \in DOMAIN ids |-> <<ids[i], PriceOf(ids[i])>>]]

\* all_fetched_data as __main__ fills it (lines 785-845): a category's key is
\* there only when its table is not empty, 'current_portfolio' whenever the
\* price call returned, 'historical_data' always.
AllData(portfolio, market, metrics, fng, hist) ==
  LET p == IF portfolio = {} THEN [k \in {} |-> EmptyFrame]
           ELSE ("current_portfolio" :> CHOOSE t \in portfolio : TRUE)
      m == IF market = {} THEN [k \in {} |-> EmptyFrame]
           ELSE ("market_overview" :> CHOOSE t \in market : TRUE)
      g == IF metrics = {} THEN [k \in {} |-> EmptyFrame]
           ELSE ("global_metrics" :> CHOOSE t \in metrics : TRUE)
      f == IF fng = {} THEN [k \in {} |-> EmptyFrame]
           ELSE ("fear_greed_index" :> CHOOSE t \in fng : TRUE)
  IN  p @@ m @@ g @@ f @@ ("historical_data" :> hist)

\* The tables of an earlier run, two rows each.
OldAllData ==
  AllData({PriceTable({"bitcoin"})},
          {TaggedTable(MarketOverviewColumns, 2, "old")},
          {GlobalMetricsTable("9000")},
          {TaggedTable(FearGreedColumns, 2, "old")},
          [s \in Range(HISTORY_SYMBOLS) |-> TaggedTable(HistoryColumns, 2, "old")])

NoFile == [state |-> "missing", wb |-> NewWorkbook]

\* The workbook an earlier run saved.
BaseWorkbook == SynchronizedWorkbook(NoFile, OldAllData, "run 0")

\* The operator deleted the sheets `gone`.
WithoutSheets(wb, gone) ==
  [names |-> SelectSeq(wb.names, LAMBDA n : n \notin gone),
   cells |-> [n \in DOMAIN wb.cells \ gone |-> wb.cells[n]]]

Reverse(s) == [i \in DOMAIN s |-> s[Len(s) + 1 - i]]

\* The operator added a sheet of their own and rearranged the tabs.
Rearranged(wb) ==
  [names |-> <<"Notes">> \o Reverse(wb.names),
   cells |-> ("Notes" :> (<<1, 1>> :> "my notes")) @@ wb.cells]

\* Fresh tables of this run, one row each.
FreshHistories ==
  {[s \in S |-> TaggedTable(HistoryColumns, 1, "new")] :
     S \in {{}, Range(HISTORY_SYMBOLS)} \cup {{s} : s \in Range(HISTORY_SYMBOLS)}}

SheetsAllData ==
  {AllData(p, m, g, f, h) :
     p \in {{}, {PriceTable({"bitcoin", "solana"})}},
     m \in {{}, {TaggedTable(MarketOverviewColumns, 1, "new")}},
     g \in {{}, {GlobalMetricsTable(None)}},
     f \in {{}, {TaggedTable(FearGreedColumns, 1, "new")}},
     h \in FreshHistories}

SheetsWorkbooks ==
  LET cut == {WithoutSheets(BaseWorkbook, gone) :
                gone \in {g \in SUBSET Range(SHEET_ORDER) :
                            Cardinality(g) <= MaxMissing}}
  IN  cut \cup {Rearranged(wb) : wb \in cut}

\* The operator's rows of the portfolio sheet: a row with every field
\* entered, or a row with the coin id alone.
OperatorCoinIds == {"bitcoin", "ethereum", "my-coin"}

OperatorValue(field, coin_id, filled) ==
  IF field = "Coin ID" THEN coin_id
  ELSE IF ~filled THEN None
  ELSE CASE field = "Current Value (USD)"  -> "90"
         [] field = "Purchase Price (USD)" -> "50"
         [] field = "Quantity"             -> "2"
         [] field = "P/L (USD)"            -> "80"
         [] field = "P/L Ratio"            -> "0.8"
         [] field = "Total Value (USD)"    -> "180"
         [] field = "Symbol"               -> "SYM"
         [] field = "Location"             -> "Wallet"
         [] OTHER                          -> "AirDrop"

OperatorRows ==
  UNION {[1..n -> OperatorCoinIds \X BOOLEAN] : n \in 0..MaxPortfolioRows}

\* A portfolio sheet: the header the code wrote (line 397 on creation, line
\* 762 after a merge) and the operator's rows under it.
PortfolioSheet(header, rows) ==
  WriteRows(EmptySheet,
            <<header>> \o
              [i \in DOMAIN rows |->
                 [c \in DOMAIN header |->
                    OperatorValue(header[c], rows[i][1], rows[i][2])]],
            1)

PortfolioSheets ==
  {PortfolioSheet(h, rows) :
     h \in {PortfolioHeader, <<"Coin ID">> \o portfolio_cols},
     rows \in OperatorRows}

PortfolioWorkbooks ==
  {PutSheet(BaseWorkbook, CURRENT_PORTFOLIO_SHEET_NAME, ws) : ws \in PortfolioSheets}

PortfolioAllData ==
  {AllData({PriceTable(S)}, {}, {}, {}, [s \in {} |-> EmptyFrame]) :
     S \in SUBSET Range(FetchedCoinIds)}

\* More rows than this the operator did not enter on the 'Transactions' sheet.
MaxTransactions == 2

\* The i-th transaction the operator entered, under the columns of line 387.
TransactionRow(i) ==
  <<"2025-01-0" \o ToString(i), "bitcoin", "Buy", ToString(i), "100",
    ToString(100 * i)>>

\* A 'Transactions' sheet as the operator keeps it: the header the code wrote
\* (or one the operator retitled) and the operator's rows under it.
TransactionsSheet(header, n) ==
  WriteRows(EmptySheet, <<header>> \o [i \in 1..n |-> TransactionRow(i)], 1)

TransactionsSheets ==
  {TransactionsSheet(h, n) :
     h \in {TransactionsHeader, <<"When", "Coin", "Side", "Qty", "Price", "Total">>},
     n \in 1..MaxTransactions}

TransactionsWorkbooks ==
  {PutSheet(wb, TRANSACTIONS_SHEET_NAME, ws) :
     wb \in {BaseWorkbook, Rearranged(BaseWorkbook)}, ws \in TransactionsSheets}

\* The tabs of the workbook turned by k places.
Rotated(s, k) == [i \in DOMAIN s |-> s[((i - 1 + k) % Len(s)) + 1]]

\* Two tabs of the workbook exchanged.
Swapped(s, a, b) ==
  [i \in DOMAIN s |-> IF i = a THEN s[b] ELSE IF i = b THEN s[a] ELSE s[i]]

\* A sheet of the operator's own put at position p (0-based) of the tabs.
WithNotesAt(names, p) ==
  SubSeq(names, 1, p) \o <<"Notes">> \o SubSeq(names, p + 1, Len(names))

\* Orders the operator can have left the tabs in, with and without a sheet
\* of their own among them.
TabOrders ==
  LET base  == BaseWorkbook.names
      moved == {Rotated(base, k) : k \in 1..(Len(base) - 1)} \cup
               {Swapped(base, a, b) : a, b \in DOMAIN base}
  IN  moved \cup {WithNotesAt(o, p) : o \in moved, p \in {0, 5, Len(base)}}

ArrangedWorkbooks ==
  {[names |-> o,
    cells |-> IF "Notes" \in Range(o)
                THEN ("Notes" :> (<<1, 1>> :> "my notes")) @@ BaseWorkbook.cells
                ELSE BaseWorkbook.cells] :
     o \in TabOrders}

ArrangedAllData ==
  {AllData({}, {}, {}, {}, [s \in {} |-> EmptyFrame]),
   AllData({PriceTable({"bitcoin", "solana"})},
           {TaggedTable(MarketOverviewColumns, 1, "new")},
           {GlobalMetricsTable(None)},
           {TaggedTable(FearGreedColumns, 1, "new")},
           [s \in Range(HISTORY_SYMBOLS) |-> TaggedTable(HistoryColumns, 1, "new")])}

\* A persisted file that is missing, or one load_workbook cannot read: what
\* the file held before it was damaged is of no use to the call.
UnloadableFiles ==
  {NoFile} \cup
  {[state |-> "corrupt", wb |-> wb] : wb \in TransactionsWorkbooks}

(***************************************************************************)
(* SpecExcel: create_or_update_excel called on a persisted file, and once    *)
(* more with the same tables                                                 *)
(***************************************************************************)
Loaded(file, all_data) ==
  [phase |-> "loaded", file |-> file, before |-> file, all_data |-> all_data,
   runs |-> 0]

InitExcel ==
  /\ call = Idle
  /\ run = Idle
  /\ \/ \E wb \in SheetsWorkbooks, d \in SheetsAllData :
          book = Loaded([state |-> "ok", wb |-> wb], d)
     \/ \E f \in UnloadableFiles, d \in SheetsAllData :
          book = Loaded(f, d)
     \/ \E wb \in PortfolioWorkbooks, d \in PortfolioAllData :
          book = Loaded([state |-> "ok", wb |-> wb], d)
     \/ \E wb \in TransactionsWorkbooks, d \in SheetsAllData :
          book = Loaded([state |-> "ok", wb |-> wb], d)
     \/ \E wb \in ArrangedWorkbooks, d \in ArrangedAllData :
          book = Loaded([state |-> "ok", wb |-> wb], d)

\* datetime.now(IST).strftime(DATE_FORMAT) (line 360) of the n-th run.
TimeOfRun(n) == "run " \o ToString(n)

Synchronized(b) ==
  [b EXCEPT !.phase  = IF b.runs = 0 THEN "synced" ELSE "synced again",
            !.before = b.file,
            !.file   = CreateOrUpdateExcel(b.file, b.all_data, TimeOfRun(b.runs + 1)),
            !.runs   = @ + 1]

Synchronize ==
  /\ book.phase = "loaded"
  /\ book' = Synchronized(book)
  /\ UNCHANGED <<call, run>>

SynchronizeAgain ==
  /\ book.phase = "synced"
  /\ book' = Synchronized(book)
  /\ UNCHANGED <<call, run>>

NextExcel == Synchronize \/ SynchronizeAgain

SpecExcel == InitExcel /\ [][NextExcel]_vars

(***************************************************************************)
(* Claims about create_or_update_excel (checked under SpecExcel)            *)
(***************************************************************************)
SyncDone == book.phase \in {"synced", "synced again"}

\* The sheets that hold one table of one category.
TableSheets ==
  {MARKET_OVERVIEW_SHEET_NAME, GLOBAL_METRICS_SHEET_NAME,
   FEAR_GREED_INDEX_SHEET_NAME} \cup
  {HistorySheetName(s) : s \in Range(HISTORY_SYMBOLS)}

GeneratedSheets == TableSheets \cup {EXECUTIVE_DASHBOARD_SHEET_NAME}

SymbolOf(name) == CHOOSE s \in Range(HISTORY_SYMBOLS) : HistorySheetName(s) = name

\* Whether all_data holds fresh data for the category of a generated sheet;
\* the dashboard summarises the global metrics and the sentiment index.
FreshFor(all_data, name) ==
  CASE name = MARKET_OVERVIEW_SHEET_NAME  -> HasFresh(all_data, "market_overview")
    [] name = GLOBAL_METRICS_SHEET_NAME   -> HasFresh(all_data, "global_metrics")
    [] name = FEAR_GREED_INDEX_SHEET_NAME -> HasFresh(all_data, "fear_greed_index")
    [] name = EXECUTIVE_DASHBOARD_SHEET_NAME ->
         HasFresh(all_data, "global_metrics") \/ HasFresh(all_data, "fear_greed_index")
    [] OTHER ->
         /\ SymbolOf(name) \in DOMAIN HistoricalData(all_data)
         /\ ~IsEmptyFrame(HistoricalData(all_data)[SymbolOf(name)])

FreshTable(all_data, name) ==
  CASE name = MARKET_OVERVIEW_SHEET_NAME  -> all_data["market_overview"]
    [] name = GLOBAL_METRICS_SHEET_NAME   -> all_data["global_metrics"]
    [] name = FEAR_GREED_INDEX_SHEET_NAME -> all_data["fear_greed_index"]
    [] OTHER -> HistoricalData(all_data)[SymbolOf(name)]

\* A sheet that holds exactly one table: header in row 1, data from row 2.
TableCells(df) == WriteRows(EmptySheet, <<df.columns>> \o df.rows, 1)

\* The dashboard written on a sheet without cells.
DashboardCells(all_data, now) ==
  UpdateDashboard([names |-> <<EXECUTIVE_DASHBOARD_SHEET_NAME>>,
                   cells |-> (EXECUTIVE_DASHBOARD_SHEET_NAME :> EmptySheet)],
                  all_data, now).cells[EXECUTIVE_DASHBOARD_SHEET_NAME]

WasLoaded(name) ==
  book.before.state = "ok" /\ HasSheet(book.before.wb, name)

SheetBefore(name) == book.before.wb.cells[name]

SheetAfter(name) == book.file.wb.cells[name]

\* The content a generated sheet has when it is cleared and fully replaced.
Replaced(name) ==
  IF name = EXECUTIVE_DASHBOARD_SHEET_NAME
    THEN SheetAfter(name) = DashboardCells(book.all_data, TimeOfRun(book.runs))
    ELSE SheetAfter(name) = TableCells(FreshTable(book.all_data, name))

\* C6 as claimed: every generated sheet, the dashboard included, is cleared
\* and replaced when its category has fresh data and keeps the cells it was
\* loaded with when it has none.
C6_ReplaceOrKeep_Claimed ==
  SyncDone =>
    \A name \in GeneratedSheets :
      IF FreshFor(book.all_data, name)
        THEN Replaced(name)
        ELSE WasLoaded(name) => SheetAfter(name) = SheetBefore(name)

\* C6 (amended): every table sheet (market overview, global metrics,
\* sentiment, each history sheet) is cleared and replaced by the fresh table
\* when its category has fresh data and keeps the cells it was loaded with
\* when it has none; the executive dashboard is cleared and rewritten on
\* every call, with or without fresh data.
C6_ReplaceOrKeep ==
  SyncDone =>
    /\ \A name \in TableSheets :
         IF FreshFor(book.all_data, name)
           THEN Replaced(name)
           ELSE WasLoaded(name) => SheetAfter(name) = SheetBefore(name)
    /\ Replaced(EXECUTIVE_DASHBOARD_SHEET_NAME)

C6_Witness ==
  /\ book.phase = "synced"
  /\ FreshFor(book.all_data, MARKET_OVERVIEW_SHEET_NAME)
  /\ WasLoaded(MARKET_OVERVIEW_SHEET_NAME)
  /\ SheetAfter(MARKET_OVERVIEW_SHEET_NAME) # SheetBefore(MARKET_OVERVIEW_SHEET_NAME)
  /\ ~FreshFor(book.all_data, FEAR_GREED_INDEX_SHEET_NAME)
  /\ WasLoaded(FEAR_GREED_INDEX_SHEET_NAME)
  /\ max_row(SheetAfter(FEAR_GREED_INDEX_SHEET_NAME)) = 3
  /\ ~FreshFor(book.all_data, EXECUTIVE_DASHBOARD_SHEET_NAME)
  /\ WasLoaded(EXECUTIVE_DASHBOARD_SHEET_NAME)
  /\ SheetAfter(EXECUTIVE_DASHBOARD_SHEET_NAME) # SheetBefore(EXECUTIVE_DASHBOARD_SHEET_NAME)

MissingBefore(name) ==
  book.before.state = "ok" /\ ~HasSheet(book.before.wb, name)

\* C7 as claimed: a generated sheet the persisted workbook lacks is created
\* with the full fresh content when its category was fetched, and is still
\* absent after the run when it was not.
C7_MissingSheet_Claimed ==
  SyncDone =>
    \A name \in GeneratedSheets :
      MissingBefore(name) =>
        IF FreshFor(book.all_data, name)
          THEN HasSheet(book.file.wb, name) /\ Replaced(name)
          ELSE ~HasSheet(book.file.wb, name)

\* C7 (amended): a generated sheet the persisted workbook lacks is created by
\* the call in either case: with the full fresh content when its category has
\* fresh data; without it a table sheet is created with no cells, and the
\* dashboard with its fixed labels and its 'Unable to fetch' notices.
C7_MissingSheet ==
  SyncDone =>
    \A name \in GeneratedSheets :
      MissingBefore(name) =>
        /\ HasSheet(book.file.wb, name)
        /\ IF FreshFor(book.all_data, name) \/ name = EXECUTIVE_DASHBOARD_SHEET_NAME
             THEN Replaced(name)
             ELSE SheetAfter(name) = EmptySheet

C7_Witness ==
  /\ book.phase = "synced"
  /\ MissingBefore(GLOBAL_METRICS_SHEET_NAME)
  /\ ~FreshFor(book.all_data, GLOBAL_METRICS_SHEET_NAME)
  /\ HasSheet(book.file.wb, GLOBAL_METRICS_SHEET_NAME)
  /\ SheetAfter(GLOBAL_METRICS_SHEET_NAME) = EmptySheet

\* The value a data row has under a header name (None without that header).
FieldOf(ws, r, field) ==
  IF \E c \in 1..max_column(ws) : CellValue(ws, 1, c) = field
    THEN CellValue(ws, r, CHOOSE c \in 1..max_column(ws) : CellValue(ws, 1, c) = field)
    ELSE None

PortfolioBefore == SheetBefore(CURRENT_PORTFOLIO_SHEET_NAME)

PortfolioAfter == SheetAfter(CURRENT_PORTFOLIO_SHEET_NAME)

MergeDone ==
  /\ SyncDone
  /\ WasLoaded(CURRENT_PORTFOLIO_SHEET_NAME)
  /\ HasFresh(book.all_data, "current_portfolio")

FreshIds == {row[1] : row \in Range(book.all_data["current_portfolio"].rows)}

\* The data rows of the sheet as loaded.
RowsBefore == 2..max_row(PortfolioBefore)

OperatorFields == Range(PortfolioHeader) \ {"Coin ID", "Current Value (USD)"}

\* C8: for a row whose asset id is in the fresh price table, the merge changes
\* the 'Current Value (USD)' cell alone: purchase price, quantity, P/L, total
\* value, symbol, location and the 'AirDrop or Invest' column keep their
\* values.
C8_OnlyCurrentValueChanges ==
  MergeDone =>
    \A r \in RowsBefore :
      CellValue(PortfolioBefore, r, 1) \in FreshIds =>
        /\ CellValue(PortfolioAfter, r, 1) = CellValue(PortfolioBefore, r, 1)
        /\ \A f \in OperatorFields :
             FieldOf(PortfolioAfter, r, f) = FieldOf(PortfolioBefore, r, f)

\* C9: a row whose asset id is not in the fresh price table is still there
\* after the merge with every field unchanged.
C9_AbsentRowsPreserved ==
  MergeDone =>
    \A r \in RowsBefore :
      (/\ CellValue(PortfolioBefore, r, 1) # None
       /\ CellValue(PortfolioBefore, r, 1) \notin FreshIds) =>
        /\ CellValue(PortfolioAfter, r, 1) = CellValue(PortfolioBefore, r, 1)
        /\ \A f \in OperatorFields \cup {"Current Value (USD)"} :
             FieldOf(PortfolioAfter, r, f) = FieldOf(PortfolioBefore, r, f)

\* C10: merging a second time with the same fresh price table leaves the
\* portfolio sheet (header, rows, row order, cell values) as the first merge
\* left it.
C10_MergeIdempotent ==
  (book.phase = "synced again" /\ HasFresh(book.all_data, "current_portfolio")) =>
    PortfolioAfter = PortfolioBefore

C10_Witness ==
  /\ book.phase = "synced again"
  /\ HasFresh(book.all_data, "current_portfolio")
  /\ "solana" \in FreshIds
  /\ "bitcoin" \in FreshIds
  /\ max_row(PortfolioAfter) = 4
  /\ CellValue(PortfolioAfter, 2, 1) = "my-coin"
  /\ CellValue(PortfolioAfter, 3, 1) = "bitcoin"
  /\ FieldOf(PortfolioAfter, 3, "Current Value (USD)") = "100"
  /\ FieldOf(PortfolioAfter, 3, "Quantity") = "2"
  /\ CellValue(PortfolioAfter, 4, 1) = "solana"

TransactionsBefore == SheetBefore(TRANSACTIONS_SHEET_NAME)

TransactionsAfter == SheetAfter(TRANSACTIONS_SHEET_NAME)

\* A sheet that holds the one row `header` and nothing else.
HeaderOnly(ws, header) ==
  /\ max_row(ws) = 1
  /\ max_column(ws) = Len(header)
  /\ SheetRow(ws, 1) = header

\* C11: the call writes to the 'Transactions' sheet only when the sheet is
\* absent, and then its one fixed header row; a 'Transactions' sheet of the
\* loaded workbook has the same cells after the call as before, whatever
\* all_data holds.
C11_TransactionsUntouched ==
  SyncDone =>
    IF WasLoaded(TRANSACTIONS_SHEET_NAME)
      THEN TransactionsAfter = TransactionsBefore
      ELSE HeaderOnly(TransactionsAfter, TransactionsHeader)

C11_Witness ==
  /\ book.phase = "synced"
  /\ WasLoaded(TRANSACTIONS_SHEET_NAME)
  /\ max_row(TransactionsBefore) = 3
  /\ CellValue(TransactionsBefore, 1, 1) = "When"
  /\ HasFresh(book.all_data, "current_portfolio")
  /\ HasFresh(book.all_data, "market_overview")
  /\ book.file.wb.names # book.before.wb.names
  /\ TransactionsAfter = TransactionsBefore

\* The sheets of SHEET_ORDER as they follow one another in the workbook.
OrderedSheets(wb) == SelectSeq(wb.names, LAMBDA n : n \in Range(SHEET_ORDER))

\* The sheets the workbook holds besides those of SHEET_ORDER.
OtherSheets(wb) == Range(wb.names) \ Range(SHEET_ORDER)

\* C12: after the call the sheets named in SHEET_ORDER follow one another in
\* the workbook exactly as in SHEET_ORDER, whatever the order of the loaded
\* workbook, whichever sheets the call created, and with or without sheets
\* of other names, which are all kept.
C12_SheetOrder ==
  SyncDone =>
    /\ OrderedSheets(book.file.wb) = SHEET_ORDER
    /\ Len(book.file.wb.names) = Cardinality(Range(book.file.wb.names))
    /\ book.before.state = "ok" =>
         OtherSheets(book.file.wb) = OtherSheets(book.before.wb)

C12_Witness ==
  /\ book.phase = "synced"
  /\ book.before.state = "ok"
  /\ OtherSheets(book.before.wb) = {"Notes"}
  /\ MissingBefore(GLOBAL_METRICS_SHEET_NAME)
  /\ book.before.wb.names[1] = "Notes"
  /\ book.before.wb.names[2] = CURRENT_PORTFOLIO_SHEET_NAME
  /\ OrderedSheets(book.file.wb) = SHEET_ORDER
  /\ "Notes" \in Range(book.file.wb.names)

\* The workbook of lines 364-407, before any data of this call is written.
FreshWorkbook(file) == EnsureSheets(LoadOrCreate(file))

\* C13: with the persisted file missing or unreadable the call does not
\* fail: it goes on with a new workbook whose 'Transactions' and 'Current
\* Portfolio' sheets hold their fixed header row alone before fresh data is
\* merged, completes the synchronisation (every sheet of SHEET_ORDER, in
\* order; the portfolio sheet the merge of the fresh prices into the header
\* row alone) and saves a readable file.
C13_FallbackToFreshWorkbook ==
  (book.phase = "synced" /\ book.before.state # "ok") =>
    /\ HeaderOnly(FreshWorkbook(book.before).cells[TRANSACTIONS_SHEET_NAME],
                  TransactionsHeader)
    /\ HeaderOnly(FreshWorkbook(book.before).cells[CURRENT_PORTFOLIO_SHEET_NAME],
                  PortfolioHeader)
    /\ book.file.state = "ok"
    /\ book.file.wb.names = SHEET_ORDER
    /\ HeaderOnly(TransactionsAfter, TransactionsHeader)
    /\ IF HasFresh(book.all_data, "current_portfolio")
         THEN PortfolioAfter =
                TableCells([columns |-> <<"Coin ID">> \o portfolio_cols,
                            rows |-> [i \in DOMAIN book.all_data["current_portfolio"].rows |->
                                        book.all_data["current_portfolio"].rows[i] \o
                                        [k \in 1..(Len(portfolio_cols) - 1) |-> ""]]])
         ELSE HeaderOnly(PortfolioAfter, PortfolioHeader)
    /\ \A name \in TableSheets :
         IF FreshFor(book.all_data, name)
           THEN Replaced(name)
           ELSE SheetAfter(name) = EmptySheet

C13_Witness ==
  /\ book.phase = "synced"
  /\ book.before.state = "corrupt"
  /\ max_row(book.before.wb.cells[TRANSACTIONS_SHEET_NAME]) = 3
  /\ HasFresh(book.all_data, "current_portfolio")
  /\ HasFresh(book.all_data, "fear_greed_index")
  /\ book.file.state = "ok"
  /\ max_row(TransactionsAfter) = 1
  /\ max_row(PortfolioAfter) = 3

(***************************************************************************)
(* __main__ (lines 784-853): the fetches one after another, then the write  *)
(***************************************************************************)
\* make_api_call_with_retry run to its end on a sequence of attempt outcomes.
RECURSIVE RunCall(_, _)
RunCall(st, outs) ==
  IF outs = <<>> \/ st.result # "pending" THEN st
  ELSE RunCall(AttemptStep(st, Head(outs), 0), Tail(outs))

\* What a call with the default parameters can end with: "response", "None",
\* or "raised" (the exception leaves the function).
FetchResults ==
  LET seqs == UNION {[1..n -> Outcomes] : n \in 1..MAX_RETRIES}
      ends == {RunCall(NewCall(MAX_RETRIES, INITIAL_API_CALL_DELAY_SECONDS), outs) :
                 outs \in seqs}
  IN  {st.result : st \in {e \in ends : e.result # "pending"}}

\* The decoded payload of a response: the documented shape, or one whose
\* required top-level structure is missing (an error object, an empty list).
PayloadKinds == {"good", "unusable"}

\* What each normalizer does with the payload: "table" (a frame with rows),
\* "empty" (an empty frame) or "raise" (an exception leaves the function).
\*   fetch_current_coin_prices (123-126): absent ids map to None
\*   get_market_overview (144-169): df[list(...)] raises KeyError
\*   get_global_metrics (301-349), get_fear_greed_index (275-291): the
\*     exception is caught, an empty frame returned
\*   get_historical_data (225-266): missing series give min_len 0
Normalize(category, kind) ==
  IF kind = "good" THEN "table"
  ELSE IF category = "market_overview" THEN "raise"
  ELSE "empty"

\* The outcome of one fetch function: "raise", "none" (no data), "empty" or
\* "table".
FetchOutcome(category, result, kind) ==
  IF result = "raised" THEN "raise"
  ELSE IF result = "None" THEN "none"
  ELSE Normalize(category, kind)

\* The fresh table of a category in this run.
RunTable(category) ==
  CASE category = "current_portfolio" -> PriceTable(Range(FetchedCoinIds))
    [] category = "market_overview"   -> TaggedTable(MarketOverviewColumns, 1, "new")
    [] category = "global_metrics"    -> GlobalMetricsTable("9000")
    [] category = "fear_greed_index"  -> TaggedTable(FearGreedColumns, 1, "new")
    [] OTHER                          -> TaggedTable(HistoryColumns, 1, "new")

\* The fetch sequence of lines 790-845.
RunSteps ==
  <<"current_portfolio", "market_overview", "global_metrics", "fear_greed_index">>
  \o HISTORY_SYMBOLS

NewRun ==
  [status           |-> "running",
   pc               |-> 1,
   all_fetched_data |-> [k \in {} |-> EmptyFrame],
   historical_dfs   |-> [s \in {} |-> EmptyFrame],
   events           |-> <<>>]

InitRun ==
  /\ call = Idle
  /\ run = NewRun
  /\ \E f \in {NoFile, [state |-> "ok", wb |-> BaseWorkbook],
               [state |-> "ok",
                wb |-> WithoutSheets(BaseWorkbook, {GLOBAL_METRICS_SHEET_NAME})]} :
       book = [phase |-> "file", file |-> f]

AtStep(label) ==
  /\ run.status = "running"
  /\ run.pc <= Len(RunSteps)
  /\ RunSteps[run.pc] = label

\* An exception leaves __main__: the process ends with a traceback.
Aborted(r, label) ==
  [r EXCEPT !.status = "aborted",
            !.events = Append(@, "fetch " \o label)]

\* The fetch returned; `stored` says whether its frame goes into
\* all_fetched_data, `sleeps` whether a time.sleep follows.
Fetched(r, label, stored, frame, sleeps) ==
  [r EXCEPT !.pc = @ + 1,
            !.all_fetched_data = IF stored THEN (label :> frame) @@ @ ELSE @,
            !.events = IF sleeps THEN @ \o <<"fetch " \o label, "sleep">>
                       ELSE Append(@, "fetch " \o label)]

\* lines 790-804: a returned price dict is stored even when no coin has a
\* price (an empty frame).
FetchPrices ==
  /\ AtStep("current_portfolio")
  /\ \E result \in FetchResults, kind \in PayloadKinds :
       LET out == FetchOutcome("current_portfolio", result, kind)
       IN  run' = IF out = "raise" THEN Aborted(run, "current_portfolio")
                  ELSE Fetched(run, "current_portfolio", out # "none",
                               IF out = "table" THEN RunTable("current_portfolio")
                               ELSE EmptyFrame,
                               TRUE)
  /\ UNCHANGED <<call, book>>

\* A fetch whose frame is stored only when it is not empty.
FetchTable(label, sleeps) ==
  \E result \in FetchResults, kind \in PayloadKinds :
    LET out == FetchOutcome(label, result, kind)
    IN  run' = IF out = "raise" THEN Aborted(run, label)
               ELSE Fetched(run, label, out = "table", RunTable(label), sleeps)

\* lines 806-814
FetchMarketOverview ==
  /\ AtStep("market_overview")
  /\ FetchTable("market_overview", TRUE)
  /\ UNCHANGED <<call, book>>

\* lines 816-824
FetchGlobalMetrics ==
  /\ AtStep("global_metrics")
  /\ FetchTable("global_metrics", TRUE)
  /\ UNCHANGED <<call, book>>

\* lines 826-832: no sleep follows this fetch.
FetchFearGreed ==
  /\ AtStep("fear_greed_index")
  /\ FetchTable("fear_greed_index", FALSE)
  /\ UNCHANGED <<call, book>>

\* lines 836-843, for one symbol of HISTORY_COIN_IDS.
FetchHistory ==
  /\ run.status = "running"
  /\ run.pc <= Len(RunSteps)
  /\ RunSteps[run.pc] \in Range(HISTORY_SYMBOLS)
  /\ LET symbol == RunSteps[run.pc]
     IN  \E result \in FetchResults, kind \in PayloadKinds :
           LET out == FetchOutcome(symbol, result, kind)
           IN  run' = IF out = "raise" THEN Aborted(run, symbol)
                      ELSE [Fetched(run, symbol, FALSE, EmptyFrame, TRUE)
                              EXCEPT !.historical_dfs =
                                IF out = "table"
                                  THEN (symbol :> RunTable(symbol)) @@ @
                                  ELSE @]
  /\ UNCHANGED <<call, book>>

\* lines 845-853: 'historical_data' is always stored, so the dictionary is
\* never empty when line 849 tests it.
WriteWorkbook ==
  /\ run.status = "running"
  /\ run.pc = Len(RunSteps) + 1
  /\ LET all_data == ("historical_data" :> run.historical_dfs) @@ run.all_fetched_data
     IN  /\ run' = [run EXCEPT !.status = "done",
                               !.all_fetched_data = all_data,
                               !.events = IF DOMAIN all_data # {}
                                            THEN Append(@, "write") ELSE @]
         /\ book' = IF DOMAIN all_data # {}
                      THEN [book EXCEPT !.file =
                              CreateOrUpdateExcel(book.file, all_data, TimeOfRun(1))]
                      ELSE book
  /\ UNCHANGED call

NextRun ==
  \/ FetchPrices
  \/ FetchMarketOverview
  \/ FetchGlobalMetrics
  \/ FetchFearGreed
  \/ FetchHistory
  \/ WriteWorkbook

SpecRun == InitRun /\ [][NextRun]_vars

(***************************************************************************)
(* Claims about the run (checked under SpecRun)                             *)
(***************************************************************************)
RunEnded == run.status # "running"

FetchEvents == {"fetch " \o RunSteps[i] : i \in DOMAIN RunSteps}

\* The categories whose fetch began.
FetchesBegun == Range(run.events) \cap FetchEvents

\* C5: a failure in one category never keeps the remaining ones from being
\* fetched and written: when the run ends, every category of the fetch
\* sequence was fetched and every category that produced a table is in the
\* workbook.
C5_FailureIsolated ==
  RunEnded =>
    /\ FetchesBegun = FetchEvents
    /\ book.file.state = "ok"
    /\ \A name \in TableSheets :
         FreshFor(run.all_fetched_data, name) =>
           book.file.wb.cells[name] = TableCells(FreshTable(run.all_fetched_data, name))

\* The part of C5 the code keeps: a run that no exception ended fetched every
\* category and wrote every table it got.
C5_WhenNoException ==
  run.status = "done" =>
    /\ FetchesBegun = FetchEvents
    /\ book.file.state = "ok"
    /\ \A name \in TableSheets :
         FreshFor(run.all_fetched_data, name) =>
           book.file.wb.cells[name] = TableCells(FreshTable(run.all_fetched_data, name))

\* The categories that produced data in this run: a table with rows for the
\* prices, the market overview, the global metrics or the sentiment index, or
\* a historical series for at least one symbol.
ProducedData ==
  \/ \E key \in {"current_portfolio", "market_overview", "global_metrics",
                 "fear_greed_index"} : HasFresh(run.all_fetched_data, key)
  \/ DOMAIN run.historical_dfs # {}

WriteStepDone == "write" \in Range(run.events)

\* C14: a run that reaches the end of its fetch sequence performs the write
\* step when at least one category produced data, and skips it (no call of
\* create_or_update_excel, the file left as it was) when none did.
C14_WriteOnlyWithData ==
  run.status = "done" => (WriteStepDone <=> ProducedData)

\* C20: the fetches of a run follow one another, and between every two
\* consecutive fetches the run sleeps INITIAL_API_CALL_DELAY_SECONDS: no two
\* fetch events are adjacent in the run's sequence of events.
C20_SleepBetweenFetches ==
  \A i \in 1..(Len(run.events) - 1) :
    run.events[i] \in FetchEvents => run.events[i + 1] = "sleep"

(***************************************************************************)
(* The normalizers (lines 114-350): decoded payloads and the tables made    *)
(* of them.  A JSON value, and a cell of a table, is a pair <<kind, n>>:     *)
(* a number n, null (None / NaN / NaT / <NA> in a table), a text that is     *)
(* not a number, a date (the day number n).                                  *)
(***************************************************************************)
JNum(n) == <<"num", n>>

JNull == <<"null", 0>>

JText(n) == <<"text", n>>

JDate(n) == <<"date", n>>

NaN == JNull

IsNum(v) == v[1] = "num"

IsNull(v) == v[1] = "null"

\* Numbers are integers in a fixed unit.  A raw price counts 1/RawPerTick of
\* the 4th decimal, a raw volume or market cap 1/RawPerUnit of a unit.
RawPerTick == 10

RawPerUnit == 10

\* Timestamps are counted in minutes (60000 ms, 60 s).
MinutesPerDay == 1440

\* round(x, k) / Series.round(k): num/den to the nearest integer, a tie to
\* the even one.
RoundHalfEven(num, den) ==
  LET q == num \div den
      r == num % den
  IN  IF 2 * r < den THEN q
      ELSE IF 2 * r > den THEN q + 1
      ELSE IF q % 2 = 0 THEN q ELSE q + 1

\* int(x): towards zero.
IntOf(num, den) == IF num >= 0 THEN num \div den ELSE -((-num) \div den)

MinOf(S) == CHOOSE m \in S : \A n \in S : m <= n

\* data.get(key, default) on a decoded JSON object.
DictGet(data, key, default) == IF key \in DOMAIN data THEN data[key] ELSE default

\* Faulty variant of series[:n]: the last n elements.
SliceLast(series, n) == SubSeq(series, Len(series) - n + 1, Len(series))

\* series[:n]
Slice(series, n) == SubSeq(series, 1, IF n < Len(series) THEN n ELSE Len(series))

\* Series.shift(1)
Shift(xs) == IF xs = <<>> THEN <<>> ELSE <<NaN>> \o SubSeq(xs, 1, Len(xs) - 1)

\* Faulty variant of the rolling window: no observation ever leaves it.
ExpiredNever(w, window) == FALSE

\* rolling(window): the oldest observation leaves once the window is full.
Expired(w, window) == Len(w) > window

\* The observations rolling(window) holds at row i (1-based), filled row by row.
RECURSIVE WindowAt(_, _, _)
WindowAt(xs, window, i) ==
  IF i = 0 THEN <<>>
  ELSE LET grown == Append(WindowAt(xs, window, i - 1), xs[i])
       IN  IF Expired(grown, window) THEN Tail(grown) ELSE grown

\* The observations of a window that are not NaN.
Observed(w) == SelectSeq(w, IsNum)

RECURSIVE SumCells(_)
SumCells(w) == IF w = <<>> THEN 0 ELSE Head(w)[2] + SumCells(Tail(w))

\* rolling(window, min_periods=1).mean().round(k), in the unit of xs.
RollingMean(xs, window) ==
  [i \in DOMAIN xs |->
     LET obs == Observed(WindowAt(xs, window, i))
     IN  IF Len(obs) >= 1 THEN JNum(RoundHalfEven(SumCells(obs), Len(obs)))
         ELSE NaN]

\* rolling(window, min_periods=1).std(): the sample standard deviation needs
\* two observations; its value is kept as the observations it is taken of.
RollingStd(xs, window) ==
  [i \in DOMAIN xs |->
     LET obs == Observed(WindowAt(xs, window, i))
     IN  IF Len(obs) >= 2 THEN <<"std", [k \in DOMAIN obs |-> obs[k][2]]>>
         ELSE NaN]

\* lines 247, 260: ((p / p.shift(1)) - 1) * 100, rounded to 3 decimals, in
\* 1/1000 percent.
DailyReturn(price) ==
  LET before == Shift(price)
  IN  [i \in DOMAIN price |->
         IF ~(IsNum(price[i]) /\ IsNum(before[i])) THEN NaN
         ELSE IF before[i][2] # 0
           THEN JNum(RoundHalfEven((price[i][2] - before[i][2]) * 100000,
                                   before[i][2]))
         ELSE IF price[i][2] # 0 THEN <<"inf", 0>>      \* x / 0.0
         ELSE NaN]                                      \* 0.0 / 0.0

Raised(error) == [kind |-> "raise", error |-> error, df |-> EmptyFrame]

Returned(df) == [kind |-> "table", error |-> "", df |-> df]

\* Faulty variant of line 246: one row is enough.
EnoughRowsOne(n) == n > 0

\* line 246: len(df) > 1
EnoughRows(n) == n > 1

\* lines 225-266 of get_historical_data, on the decoded payload.
\*  - a payload that is no JSON object has no .get (AttributeError);
\*  - p[0] / 1000 on a timestamp that is no number and round(p[1], 4) on a
\*    text are a TypeError, int(v[1]) on a text is a ValueError;
\*  - a 'Price' column of None alone has dtype object, and dividing it (line
\*    247) is a TypeError.
get_historical_data(payload) ==
  IF payload.shape # "object" THEN Raised("AttributeError")
  ELSE
    LET data        == payload.fields
        prices      == DictGet(data, "prices", <<>>)
        volumes     == DictGet(data, "total_volumes", <<>>)
        market_caps == DictGet(data, "market_caps", <<>>)
        min_len     == MinOf({Len(prices), Len(volumes), Len(market_caps)})
        p           == Slice(prices, min_len)
        v           == Slice(volumes, min_len)
        mc          == Slice(market_caps, min_len)
        rows        == 1..min_len
        badPrice    == \/ \E i \in rows : ~IsNum(p[i][1])
                       \/ \E i \in rows : ~(IsNum(p[i][2]) \/ IsNull(p[i][2]))
        badInt      == \/ \E i \in rows : ~(IsNum(v[i][2]) \/ IsNull(v[i][2]))
                       \/ \E i \in rows : ~(IsNum(mc[i][2]) \/ IsNull(mc[i][2]))
        Date        == [i \in rows |-> JDate(p[i][1][2] \div MinutesPerDay)]
        Price       == [i \in rows |->
                          IF IsNum(p[i][2])
                            THEN JNum(RoundHalfEven(p[i][2][2], RawPerTick))
                            ELSE NaN]
        Volume      == [i \in rows |->
                          IF IsNum(v[i][2]) THEN JNum(IntOf(v[i][2][2], RawPerUnit))
                          ELSE NaN]
        MarketCap   == [i \in rows |->
                          IF IsNum(mc[i][2]) THEN JNum(IntOf(mc[i][2][2], RawPerUnit))
                          ELSE NaN]
        calc        == EnoughRows(min_len)
        ret         == IF calc THEN DailyReturn(Price) ELSE [i \in rows |-> NaN]
        ma7         == IF calc THEN RollingMean(Price, 7) ELSE [i \in rows |-> NaN]
        ma30        == IF calc THEN RollingMean(Price, 30) ELSE [i \in rows |-> NaN]
        vol         == IF calc THEN RollingStd(ret, 7) ELSE [i \in rows |-> NaN]
    IN  IF badPrice THEN Raised("TypeError")
        ELSE IF badInt THEN Raised("ValueError")
        ELSE IF calc /\ \A i \in rows : IsNull(Price[i]) THEN Raised("TypeError")
        ELSE Returned([columns |-> HistoryColumns,
                       rows    |-> [i \in rows |->
                                      <<Date[i], Price[i], Volume[i], MarketCap[i],
                                        ret[i], ma7[i], ma30[i], vol[i]>>]])

(***************************************************************************)
(* Payloads of the market_chart endpoint                                    *)
(***************************************************************************)
\* Longest series whose prices are enumerated value by value.
MaxSeries == 8

\* Raw prices: 1.4 and 360.5 ticks of the 4th decimal.
RawPrices == {14, 3605}

\* The lengths the three series are combined of (HISTORICAL_DAYS is 30).
SeriesLengths == {0, 1, 2, 28, 29, 30}

FirstDay == 20000

\* The timestamp of the i-th daily point, some hours into the day.
TimestampOf(i) == JNum((FirstDay + i) * MinutesPerDay + 60 * (i % 24))

\* A [timestamp, value] pair of the payload.
Point(i, value) == <<TimestampOf(i), value>>

\* Series whose i-th point is recognisable by its value.
PriceSeries(n) == [i \in 1..n |-> Point(i, JNum(1000 * RawPerTick + 37 * i + (i % 7)))]

VolumeSeries(n) == [i \in 1..n |-> Point(i, JNum((2000 + i) * RawPerUnit + 7))]

MarketCapSeries(n) == [i \in 1..n |-> Point(i, JNum((5000 + i) * RawPerUnit + 3))]

ChartObject(prices, volumes, market_caps) ==
  [shape  |-> "object",
   fields |-> [prices |-> prices, total_volumes |-> volumes,
               market_caps |-> market_caps]]

\* A JSON object lacking the keys `gone`.
WithoutKeys(payload, gone) ==
  [payload EXCEPT !.fields = [k \in DOMAIN payload.fields \ gone |-> payload.fields[k]]]

\* A payload that is a JSON list: its items.
ArrayOf(items) == [shape |-> "array", fields |-> [items |-> items]]

\* A payload that is no JSON object at all.
ArrayPayload == ArrayOf(<<>>)

\* The error object the upstream answers with instead of the data.
ErrorObject == [shape |-> "object", fields |-> [status |-> JText(429)]]

\* Series of the three lengths in every combination.
ChartsByLength ==
  {ChartObject(PriceSeries(lp), VolumeSeries(lv), MarketCapSeries(lm)) :
     lp \in SeriesLengths, lv \in SeriesLengths, lm \in SeriesLengths}

\* Series of one length with every combination of prices.
ChartsByPrice ==
  UNION {{ChartObject([i \in 1..n |-> Point(i, JNum(ps[i]))],
                      VolumeSeries(n), MarketCapSeries(n)) :
            ps \in [1..n -> RawPrices]} : n \in 0..MaxSeries}

\* Short series with single fields null or malformed, and payloads lacking
\* a top-level key.
FieldValues == {JNum(25), JNum(36), JNull, JText(1)}

ChartsByField ==
  UNION {{ChartObject([i \in 1..n |-> Point(i, ps[i])],
                      [i \in 1..n |-> Point(i, IF i = nv THEN bad ELSE JNum(20007))],
                      MarketCapSeries(n)) :
            ps \in [1..n -> FieldValues], nv \in 0..1, bad \in {JNull, JText(1)}} :
         n \in 1..3}
  \cup {ChartObject(<<<<JNull, JNum(25)>>, Point(2, JNum(36))>>,
                    VolumeSeries(2), MarketCapSeries(2))}
  \cup {WithoutKeys(ChartObject(PriceSeries(2), VolumeSeries(2), MarketCapSeries(2)),
                    gone) :
          gone \in SUBSET {"prices", "total_volumes", "market_caps"}}
  \cup {ArrayPayload}

HistoryPayloads == ChartsByLength \cup ChartsByPrice \cup ChartsByField

(***************************************************************************)
(* get_fear_greed_index (lines 270-292)                                     *)
(***************************************************************************)
\* pd.DataFrame(data): the column names are the keys of all records.
RecordKeys(data) == UNION {DOMAIN data[i] : i \in DOMAIN data}

\* df[column]: a record without the key holds NaN there.
ColumnOf(data, key) == [i \in DOMAIN data |-> DictGet(data[i], key, NaN)]

\* pd.to_datetime(x, unit='s', errors='coerce').dt.strftime('%Y-%m-%d')
DateOf(x) == IF IsNum(x) THEN JDate(x[2] \div MinutesPerDay) ELSE NaN

\* pd.to_numeric(x, errors='coerce')
ToNumeric(x) == IF IsNum(x) THEN x ELSE NaN

\* sort_values orders by the key ascending, rows without a key last.
Before(a, b) == IsNull(b) \/ (~IsNull(a) /\ a[2] <= b[2])

\* df.sort_values(column c): each row is put behind the last one not after it.
RECURSIVE SortValues(_, _)
SortValues(rows, c) ==
  IF rows = <<>> THEN <<>>
  ELSE LET n      == Len(rows)
           sorted == SortValues(SubSeq(rows, 1, n - 1), c)
           last   == rows[n]
           keep   == {k \in 0..Len(sorted) :
                        \A j \in 1..k : Before(sorted[j][c], last[c])}
           pos    == CHOOSE k \in keep : \A q \in keep : q <= k
       IN  SubSeq(sorted, 1, pos) \o <<last>> \o SubSeq(sorted, pos + 1, Len(sorted))

\* lines 275-291: every exception of the parsing is caught and gives an
\* empty table.
get_fear_greed_index(payload) ==
  IF payload.shape # "object" \/ "data" \notin DOMAIN payload.fields
    THEN Returned(EmptyFrame)                               \* lines 284-291
  ELSE
    LET data == payload.fields["data"]
        keys == RecordKeys(data)
    IN  IF ~({"timestamp", "value", "value_classification"} \subseteq keys)
          THEN Returned(EmptyFrame)                         \* KeyError, line 284
        ELSE
          LET Date  == [i \in DOMAIN data |-> DateOf(ColumnOf(data, "timestamp")[i])]
              Index == [i \in DOMAIN data |-> ToNumeric(ColumnOf(data, "value")[i])]
              Class == ColumnOf(data, "value_classification")
              rows  == [i \in DOMAIN data |-> <<Date[i], Index[i], Class[i]>>]
          IN  Returned([columns |-> FearGreedColumns,
                        rows    |-> SortValues(rows, 1)])

(***************************************************************************)
(* Payloads of the fng endpoint                                             *)
(***************************************************************************)
\* More records than this a payload does not hold.
MaxRecords == 3

FngRecord(timestamp, value, classification) ==
  [timestamp |-> timestamp, value |-> value, value_classification |-> classification]

\* Records of three days, two of them of the same day, and records with a
\* field that is malformed or missing.
FngRecords ==
  {FngRecord(JNum((FirstDay + 2) * MinutesPerDay), JNum(40), JText(2)),
   FngRecord(JNum((FirstDay + 1) * MinutesPerDay + 30), JNum(25), JText(1)),
   FngRecord(JNum((FirstDay + 1) * MinutesPerDay + 900), JNum(30), JText(1)),
   FngRecord(JNum((FirstDay + 3) * MinutesPerDay), JText(9), JText(3)),
   FngRecord(JText(9), JNum(70), JText(4)),
   [timestamp |-> JNum(FirstDay * MinutesPerDay), value |-> JNum(55)]}

FngObject(data) == [shape |-> "object", fields |-> [data |-> data]]

FngPayloads ==
  UNION {{FngObject(data) : data \in [1..n -> FngRecords]} : n \in 0..MaxRecords}
  \cup {ArrayPayload, ErrorObject}

(***************************************************************************)
(* get_market_overview (lines 129-211)                                      *)
(***************************************************************************)
\* lines 148-166: the keys of a coin record and the column each becomes.
columns_map ==
  <<<<"market_cap_rank", "Rank">>, <<"name", "Name">>, <<"symbol", "Symbol">>,
    <<"current_price", "Price (USD)">>, <<"market_cap", "Market Cap">>,
    <<"total_volume", "24h Volume">>,
    <<"price_change_percentage_24h", "24h Change (%)">>,
    <<"price_change_percentage_7d_in_currency", "7d Change (%)">>,
    <<"price_change_percentage_30d_in_currency", "30d Change (%)">>,
    <<"price_change_percentage_1y_in_currency", "1y Change (%)">>,
    <<"circulating_supply", "Circulating Supply">>,
    <<"total_supply", "Total Supply">>, <<"max_supply", "Max Supply">>,
    <<"ath", "All-Time High">>, <<"ath_date", "ATH Date">>,
    <<"atl", "All-Time Low">>, <<"atl_date", "ATL Date">>>>

MarketKeys == {columns_map[k][1] : k \in DOMAIN columns_map}

\* lines 173-186
numeric_cols_to_convert ==
  {"Price (USD)", "Market Cap", "24h Volume", "24h Change (%)", "7d Change (%)",
   "30d Change (%)", "1y Change (%)", "Circulating Supply", "Total Supply",
   "Max Supply", "All-Time High", "All-Time Low"}

\* 'Change (%)' in col
IsChangeColumn(column) ==
  column \in {"24h Change (%)", "7d Change (%)", "30d Change (%)", "1y Change (%)"}

\* An ISO date-time text of the payload, as the minute it names.
JDateTime(n) == <<"datetime", n>>

\* The empty string.
EmptyText == JText(0)

\* lines 188-196: to_numeric(errors='coerce'), then round(2) for a change and
\* round(4) for the price; both are held in tenths of the last kept decimal.
ConvertNumeric(column, x) ==
  IF ~IsNum(x) THEN NaN
  ELSE IF IsChangeColumn(column) \/ column = "Price (USD)"
    THEN JNum(RoundHalfEven(x[2], RawPerTick))
  ELSE x

\* lines 199-203: to_datetime(errors='coerce'), strftime, fillna('').
ConvertDate(x) ==
  IF x[1] = "datetime" THEN JDate(x[2] \div MinutesPerDay) ELSE EmptyText

ConvertCell(column, x) ==
  IF column \in numeric_cols_to_convert THEN ConvertNumeric(column, x)
  ELSE IF column \in {"ATH Date", "ATL Date"} THEN ConvertDate(x)
  ELSE x

\* The column names of pd.DataFrame(data): the keys of the records of a
\* list, the keys of an object otherwise.
FrameKeys(payload) ==
  IF payload.shape = "array" THEN RecordKeys(payload.fields.items)
  ELSE DOMAIN payload.fields

\* lines 144-210.  Nothing catches the KeyError of line 169 when a column of
\* columns_map is not among the columns of the frame.
get_market_overview(payload) ==
  IF ~(MarketKeys \subseteq FrameKeys(payload)) THEN Raised("KeyError")
  ELSE
    LET data == IF payload.shape = "array" THEN payload.fields.items
                ELSE <<payload.fields>>
    IN  Returned([columns |-> [k \in DOMAIN columns_map |-> columns_map[k][2]],
                  rows    |-> [i \in DOMAIN data |->
                                 [k \in DOMAIN columns_map |->
                                    ConvertCell(columns_map[k][2],
                                                DictGet(data[i], columns_map[k][1], NaN))]]])

(***************************************************************************)
(* Payloads of the coins/markets endpoint                                   *)
(***************************************************************************)
\* More coin records than this a payload does not hold.
MaxCoins == 2

\* A coin record with every key; its price and its all-time-high date vary.
CoinRecord(price, ath_date) ==
  [k \in MarketKeys |->
     CASE k = "market_cap_rank" -> JNum(1)
       [] k = "name"            -> JText(101)
       [] k = "symbol"          -> JText(201)
       [] k = "current_price"   -> price
       [] k = "price_change_percentage_24h" -> JNum(-125)
       [] k = "ath_date"        -> ath_date
       [] k = "atl_date"        -> JDateTime(FirstDay * MinutesPerDay + 75)
       [] k = "max_supply"      -> JNull
       [] OTHER                 -> JNum(5000)]

\* A record lacking the keys `gone`.
RecordWithout(record, gone) == [k \in DOMAIN record \ gone |-> record[k]]

CoinRecords ==
  {CoinRecord(price, JDateTime((FirstDay + 5) * MinutesPerDay + 600)) :
     price \in {JNum(14), JNum(3605), JNull, JText(1)}}
  \cup {CoinRecord(JNum(25), JNull),
        RecordWithout(CoinRecord(JNum(25), JNull), {"max_supply"}),
        RecordWithout(CoinRecord(JNum(25), JNull),
                      {"price_change_percentage_1y_in_currency", "ath"})}

MarketPayloads ==
  UNION {{ArrayOf(data) : data \in [1..n -> CoinRecords]} :
         n \in 0..MaxCoins}
  \cup {ErrorObject}

(***************************************************************************)
(* get_global_metrics (lines 295-350)                                       *)
(***************************************************************************)
\* A JSON object nested in a payload.
JObject(fields) == <<"object", fields>>

IsObject(v) == v[1] = "object"

\* lines 315-321: where each metric is read from, in the order of 'Metric';
\* an empty second key reads the value itself.
MetricPaths ==
  <<<<"total_market_cap", "usd">>, <<"total_volume", "usd">>,
    <<"market_cap_percentage", "btc">>, <<"market_cap_percentage", "eth">>,
    <<"active_cryptocurrencies", "">>, <<"markets", "">>,
    <<"market_cap_change_percentage_24h_usd", "">>>>

\* data.get(a, {}).get(b) has no .get to call when data[a] is no object.
PathFails(data, path) ==
  /\ path[2] # ""
  /\ path[1] \in DOMAIN data
  /\ ~IsObject(data[path[1]])

\* data.get(a, {}).get(b), or data.get(a)
PathValue(data, path) ==
  IF path[1] \notin DOMAIN data THEN JNull
  ELSE IF path[2] = "" THEN data[path[1]]
  ELSE DictGet(data[path[1]][2], path[2], JNull)

\* lines 301-349: every exception is caught and gives an empty table.
get_global_metrics(payload) ==
  IF payload.shape # "object" \/ "data" \notin DOMAIN payload.fields
    THEN Returned(EmptyFrame)
  ELSE IF ~IsObject(payload.fields["data"]) THEN Returned(EmptyFrame)
  ELSE
    LET data == payload.fields["data"][2]
    IN  IF \E k \in DOMAIN MetricPaths : PathFails(data, MetricPaths[k])
          THEN Returned(EmptyFrame)
        ELSE Returned([columns |-> GlobalMetricsColumns,
                       rows    |-> [k \in DOMAIN MetricPaths |->
                                      <<<<"str", GlobalMetricNames[k]>>,
                                        ToNumeric(PathValue(data, MetricPaths[k]))>>]])

(***************************************************************************)
(* Payloads of the global endpoint                                          *)
(***************************************************************************)
GlobalData(cap, btc, active) ==
  [total_market_cap      |-> cap,
   total_volume          |-> JObject([usd |-> JNum(120), eur |-> JNum(110)]),
   market_cap_percentage |-> JObject([btc |-> btc, eth |-> JNum(17)]),
   active_cryptocurrencies |-> active,
   markets               |-> JNum(800),
   market_cap_change_percentage_24h_usd |-> JNum(-2)]

GlobalObject(data) == [shape |-> "object", fields |-> [data |-> data]]

GlobalPayloads ==
  {GlobalObject(JObject(GlobalData(cap, btc, active))) :
     cap    \in {JObject([usd |-> JNum(2500)]), JObject([eur |-> JNum(2300)]), JNull},
     btc    \in {JNum(52), JNull, JText(1)},
     active \in {JNum(9000), JNull, JText(1)}}
  \cup {GlobalObject(JObject(RecordWithout(
                       GlobalData(JObject([usd |-> JNum(2500)]), JNum(52), JNum(9000)),
                       gone))) :
          gone \in SUBSET {"total_market_cap", "market_cap_percentage", "markets"}}
  \cup {GlobalObject(JNull), ErrorObject, ArrayPayload}

(***************************************************************************)
(* fetch_current_coin_prices (lines 114-127)                                *)
(***************************************************************************)
\* lines 123-126: the price of every requested coin, None for a coin the
\* payload does not hold; the returned dictionary is kept as a table of coin
\* and price.  Nothing catches the AttributeError of .get on a payload, or on
\* a coin's entry, that is no object.
fetch_current_coin_prices(payload) ==
  IF payload.shape # "object" THEN Raised("AttributeError")
  ELSE
    LET data == payload.fields
    IN  IF \E i \in DOMAIN FetchedCoinIds :
             /\ FetchedCoinIds[i] \in DOMAIN data
             /\ ~IsObject(data[FetchedCoinIds[i]])
          THEN Raised("AttributeError")
        ELSE Returned([columns |-> <<"coin_id", "usd">>,
                       rows    |-> [i \in DOMAIN FetchedCoinIds |->
                                      <<<<"str", FetchedCoinIds[i]>>,
                                        IF FetchedCoinIds[i] \in DOMAIN data
                                          THEN DictGet(data[FetchedCoinIds[i]][2],
                                                       "usd", JNull)
                                          ELSE JNull>>]])

(***************************************************************************)
(* Payloads of the simple/price endpoint                                    *)
(***************************************************************************)
\* What the payload holds for one coin.
CoinEntries ==
  {JObject([usd |-> JNum(100)]), JObject([usd |-> JNull]),
   JObject([eur |-> JNum(90)]), JNull}

PricePayloads ==
  UNION {{[shape |-> "object", fields |-> entries] : entries \in [S -> CoinEntries]} :
         S \in SUBSET Range(FetchedCoinIds)}
  \cup {ErrorObject, ArrayPayload}

(***************************************************************************)
(* SpecNormalize: a normalizer applied to the decoded payload of a response  *)
(***************************************************************************)
NoResult == [kind |-> "pending", error |-> "", df |-> EmptyFrame]

Decoded(fn, payload) ==
  [phase |-> "decoded", fn |-> fn, payload |-> payload, out |-> NoResult]

InitNormalize ==
  /\ run = Idle
  /\ book = Idle
  /\ \/ \E payload \in HistoryPayloads :
          call = Decoded("get_historical_data", payload)
     \/ \E payload \in FngPayloads :
          call = Decoded("get_fear_greed_index", payload)
     \/ \E payload \in MarketPayloads :
          call = Decoded("get_market_overview", payload)
     \/ \E payload \in GlobalPayloads :
          call = Decoded("get_global_metrics", payload)
     \/ \E payload \in PricePayloads :
          call = Decoded("fetch_current_coin_prices", payload)

Normalizing(fn) == call.phase = "decoded" /\ call.fn = fn

GetHistoricalData ==
  /\ Normalizing("get_historical_data")
  /\ call' = [call EXCEPT !.phase = "returned",
                          !.out = get_historical_data(call.payload)]
  /\ UNCHANGED <<run, book>>

GetFearGreedIndex ==
  /\ Normalizing("get_fear_greed_index")
  /\ call' = [call EXCEPT !.phase = "returned",
                          !.out = get_fear_greed_index(call.payload)]
  /\ UNCHANGED <<run, book>>

GetMarketOverview ==
  /\ Normalizing("get_market_overview")
  /\ call' = [call EXCEPT !.phase = "returned",
                          !.out = get_market_overview(call.payload)]
  /\ UNCHANGED <<run, book>>

GetGlobalMetrics ==
  /\ Normalizing("get_global_metrics")
  /\ call' = [call EXCEPT !.phase = "returned",
                          !.out = get_global_metrics(call.payload)]
  /\ UNCHANGED <<run, book>>

FetchCurrentCoinPrices ==
  /\ Normalizing("fetch_current_coin_prices")
  /\ call' = [call EXCEPT !.phase = "returned",
                          !.out = fetch_current_coin_prices(call.payload)]
  /\ UNCHANGED <<run, book>>

NextNormalize ==
  \/ GetHistoricalData
  \/ GetFearGreedIndex
  \/ GetMarketOverview
  \/ GetGlobalMetrics
  \/ FetchCurrentCoinPrices

SpecNormalize == InitNormalize /\ [][NextNormalize]_vars

(***************************************************************************)
(* Claims about get_historical_data (checked under SpecNormalize)           *)
(***************************************************************************)
HistoryReturned ==
  /\ call.phase = "returned"
  /\ call.fn = "get_historical_data"
  /\ call.out.kind = "table"

\* The cell of row r (1-based: row 0 of the table is r = 1) under a column.
Cell(df, r, column) ==
  df.rows[r][CHOOSE c \in DOMAIN df.columns : df.columns[c] = column]

HistoryRows == Len(call.out.df.rows)

HistoryCell(r, column) == Cell(call.out.df, r, column)

DerivedColumns == {"Daily Return (%)", "7-Day MA", "30-Day MA", "Volatility (7d)"}

\* C15 as claimed: row 0 of a returned table has every derived column null,
\* whatever the length of the series.
C15_RowZeroAllNull_Claimed ==
  (HistoryReturned /\ HistoryRows >= 1) =>
    \A column \in DerivedColumns : IsNull(HistoryCell(1, column))

\* C15 (amended): in row 0 the daily return and the 7-day volatility are
\* null for every series length N >= 1; the two moving averages of row 0 are
\* null only when the series has fewer than 2 rows (then every derived column
\* of the table is null) and equal the price of row 0 (null when that price
\* is) when it has 2 rows or more.
C15_RowZero ==
  (HistoryReturned /\ HistoryRows >= 1) =>
    /\ IsNull(HistoryCell(1, "Daily Return (%)"))
    /\ IsNull(HistoryCell(1, "Volatility (7d)"))
    /\ HistoryRows < 2 =>
         \A r \in 1..HistoryRows, column \in DerivedColumns :
           IsNull(HistoryCell(r, column))
    /\ HistoryRows >= 2 =>
         /\ HistoryCell(1, "7-Day MA") = HistoryCell(1, "Price")
         /\ HistoryCell(1, "30-Day MA") = HistoryCell(1, "Price")

C15_Witness ==
  /\ HistoryReturned
  /\ HistoryRows = 2
  /\ HistoryCell(1, "Price") = JNum(360)
  /\ HistoryCell(1, "7-Day MA") = JNum(360)
  /\ IsNull(HistoryCell(1, "Daily Return (%)"))
  /\ IsNum(HistoryCell(2, "Daily Return (%)"))

RECURSIVE SumOfPrices(_, _)
SumOfPrices(lo, hi) ==
  IF lo > hi THEN 0 ELSE HistoryCell(hi, "Price")[2] + SumOfPrices(lo, hi - 1)

AllPricesPresent == \A r \in 1..HistoryRows : IsNum(HistoryCell(r, "Price"))

\* C16: for a series of N >= 7 rows with every price present, the '7-Day MA'
\* of each row i is the arithmetic mean of the prices of rows max(0,i-6)..i,
\* to within half a unit of the 4th decimal, and in row 0 'Daily Return (%)'
\* and 'Volatility (7d)' are null.
C16_SevenDayMean ==
  (HistoryReturned /\ HistoryRows >= 7 /\ AllPricesPresent) =>
    /\ \A r \in 1..HistoryRows :
         LET lo    == IF r - 6 > 1 THEN r - 6 ELSE 1
             count == r - lo + 1
             diff  == HistoryCell(r, "7-Day MA")[2] * count - SumOfPrices(lo, r)
         IN  /\ IsNum(HistoryCell(r, "7-Day MA"))
             /\ 2 * diff <= count
             /\ -2 * diff <= count
    /\ IsNull(HistoryCell(1, "Daily Return (%)"))
    /\ IsNull(HistoryCell(1, "Volatility (7d)"))

C16_Witness ==
  /\ HistoryReturned
  /\ HistoryRows = 8
  /\ HistoryCell(1, "Price") = JNum(360)
  /\ \A r \in 2..8 : HistoryCell(r, "Price") = JNum(1)
  /\ HistoryCell(7, "7-Day MA") = JNum(52)
  /\ HistoryCell(8, "7-Day MA") = JNum(1)

RawSeries(key) == DictGet(call.payload.fields, key, <<>>)

\* A cell holds the raw value rounded to the nearest unit (null for null).
RoundedFrom(cell, raw, scale) ==
  IF IsNull(raw) THEN IsNull(cell)
  ELSE /\ IsNum(cell)
       /\ 2 * (cell[2] * scale - raw[2]) <= scale
       /\ 2 * (raw[2] - cell[2] * scale) <= scale

\* A cell holds the integer part of the raw value (null for null).
TruncatedFrom(cell, raw, scale) ==
  IF IsNull(raw) THEN IsNull(cell)
  ELSE /\ IsNum(cell)
       /\ cell[2] * scale <= raw[2]
       /\ raw[2] < (cell[2] + 1) * scale

\* C17: the returned table has exactly min(len(prices), len(volumes),
\* len(market_caps)) rows, and row i is made of the i-th element of each of
\* the three series (date and price of prices[i], volume of volumes[i],
\* market cap of market_caps[i]); lengths 30, 28, 29 give 28 rows.
C17_TruncatedToShortest ==
  HistoryReturned =>
    /\ HistoryRows = MinOf({Len(RawSeries("prices")), Len(RawSeries("total_volumes")),
                            Len(RawSeries("market_caps"))})
    /\ \A r \in 1..HistoryRows :
         /\ HistoryCell(r, "Date") = JDate(RawSeries("prices")[r][1][2] \div MinutesPerDay)
         /\ RoundedFrom(HistoryCell(r, "Price"), RawSeries("prices")[r][2], RawPerTick)
         /\ TruncatedFrom(HistoryCell(r, "Volume"),
                          RawSeries("total_volumes")[r][2], RawPerUnit)
         /\ TruncatedFrom(HistoryCell(r, "Market Cap"),
                          RawSeries("market_caps")[r][2], RawPerUnit)

C17_Witness ==
  /\ HistoryReturned
  /\ Len(RawSeries("prices")) = 30
  /\ Len(RawSeries("total_volumes")) = 28
  /\ Len(RawSeries("market_caps")) = 29
  /\ HistoryRows = 28
  /\ HistoryCell(28, "Date") = JDate(FirstDay + 28)
  /\ HistoryCell(28, "Volume") = JNum(2028)
  /\ HistoryCell(28, "Market Cap") = JNum(5028)

(***************************************************************************)
(* Claims about get_fear_greed_index (checked under SpecNormalize)          *)
(***************************************************************************)
FearGreedReturned ==
  /\ call.phase = "returned"
  /\ call.fn = "get_fear_greed_index"
  /\ call.out.kind = "table"

FearGreedDate(r) == Cell(call.out.df, r, "Date")

\* C18: the sentiment table has one row per calendar date: its rows are in
\* ascending date order and no two rows carry the same date, whatever the
\* payload, one with several records of the same day included.
C18_OneRowPerDate ==
  FearGreedReturned =>
    \A r, q \in 1..Len(call.out.df.rows) :
      (r < q /\ ~IsNull(FearGreedDate(r)) /\ ~IsNull(FearGreedDate(q))) =>
        FearGreedDate(r)[2] < FearGreedDate(q)[2]

\* The part of C18 the code keeps: the rows are in ascending date order,
\* rows without a date last.
C18_SortedByDate ==
  FearGreedReturned =>
    \A r, q \in 1..Len(call.out.df.rows) :
      r < q => Before(FearGreedDate(r), FearGreedDate(q))

(***************************************************************************)
(* Claims about all normalizers (checked under SpecNormalize)               *)
(***************************************************************************)
NormalizerReturned == call.phase = "returned"

IsJsonObject(payload) == payload.shape = "object"

\* The payload has the top-level structure the normalizer reads: the three
\* series of a chart, the 'data' list with the three fields of a sentiment
\* record, a list of coin records with every key of columns_map, the 'data'
\* object of the global metrics, the object of prices by coin.
ShapeRecognized ==
  LET payload == call.payload
  IN  CASE call.fn = "get_historical_data" ->
             /\ IsJsonObject(payload)
             /\ {"prices", "total_volumes", "market_caps"} \subseteq DOMAIN payload.fields
        [] call.fn = "get_fear_greed_index" ->
             /\ IsJsonObject(payload)
             /\ "data" \in DOMAIN payload.fields
             /\ {"timestamp", "value", "value_classification"}
                  \subseteq RecordKeys(payload.fields["data"])
        [] call.fn = "get_market_overview" ->
             /\ ~IsJsonObject(payload)
             /\ MarketKeys \subseteq RecordKeys(payload.fields.items)
        [] call.fn = "get_global_metrics" ->
             /\ IsJsonObject(payload)
             /\ "data" \in DOMAIN payload.fields
             /\ IsObject(payload.fields["data"])
        [] OTHER -> IsJsonObject(payload)

\* The rows a payload of the recognized shape has data for.
ExpectedRows ==
  LET payload == call.payload
  IN  CASE call.fn = "get_historical_data" ->
             MinOf({Len(payload.fields["prices"]), Len(payload.fields["total_volumes"]),
                    Len(payload.fields["market_caps"])})
        [] call.fn = "get_fear_greed_index" -> Len(payload.fields["data"])
        [] call.fn = "get_market_overview"  -> Len(payload.fields.items)
        [] call.fn = "get_global_metrics"   -> Len(MetricPaths)
        [] OTHER                            -> Len(FetchedCoinIds)

\* C19: no normalizer lets an exception out for a decoded payload: a payload
\* of the recognized shape gives a table with a row for each of its records
\* (a missing or malformed field being null there), and a payload of an
\* unrecognized shape gives an empty table.
C19_NormalizersNeverRaise ==
  NormalizerReturned =>
    /\ call.out.kind = "table"
    /\ IF ShapeRecognized
         THEN Len(call.out.df.rows) = ExpectedRows
         ELSE IsEmptyFrame(call.out.df)

\* The part of C19 the code keeps: get_global_metrics and
\* get_fear_greed_index, whose parsing stands in a try block, return a table
\* for every payload, an empty one for a payload of an unrecognized shape.
C19_GuardedNormalizers ==
  (NormalizerReturned /\ call.fn \in {"get_global_metrics", "get_fear_greed_index"}) =>
    /\ call.out.kind = "table"
    /\ ~ShapeRecognized => IsEmptyFrame(call.out.df)

(***************************************************************************)
(* SpecSave: one run of __main__ with create_or_update_excel taken line by  *)
(* line.  `book.file` is the persisted workbook, `book.wb` the workbook in   *)
(* memory, `book.before` the persisted workbook when the run began.  The     *)
(* process can end at any point before it finishes (an uncaught exception,   *)
(* a signal): nothing in lines 784-853 handles either.                       *)
(***************************************************************************)
\* The steps of create_or_update_excel between loading and saving, in the
\* order of the code: lines 381-407, 412-479, 481-554, 556-595, 597-643,
\* 645-717, 719-770, 772-777.
SheetSteps ==
  <<"ensure", "dashboard", "market_overview", "global_metrics",
    "fear_greed_index", "historical_data", "portfolio", "reorder">>

\* What one step makes of the workbook in memory.
SheetStep(wb, all_data, now, step) ==
  CASE step = "ensure"           -> EnsureSheets(wb)
    [] step = "dashboard"        -> UpdateDashboard(wb, all_data, now)
    [] step = "market_overview"  -> UpdateGenerated(wb, all_data, "market_overview",
                                                    MARKET_OVERVIEW_SHEET_NAME)
    [] step = "global_metrics"   -> UpdateGenerated(wb, all_data, "global_metrics",
                                                    GLOBAL_METRICS_SHEET_NAME)
    [] step = "fear_greed_index" -> UpdateGenerated(wb, all_data, "fear_greed_index",
                                                    FEAR_GREED_INDEX_SHEET_NAME)
    [] step = "historical_data"  -> UpdateHistories(wb, all_data)
    [] step = "portfolio"        -> UpdatePortfolio(UpdateTransactions(wb, all_data),
                                                    all_data)
    [] OTHER                     -> ReorderSheets(wb)

\* A faulty variant: every step writes the workbook through to the file.
PersistedWrittenThrough(file, wb) == [state |-> "ok", wb |-> wb]

\* The persisted file after a step on the workbook in memory: lines 381-777
\* work on `wb` only, none of them writes the file.
Persisted(file, wb) == file

\* The files a run can find.
RunFiles ==
  {NoFile, [state |-> "ok", wb |-> BaseWorkbook],
   [state |-> "ok", wb |-> WithoutSheets(BaseWorkbook, {GLOBAL_METRICS_SHEET_NAME})],
   [state |-> "corrupt", wb |-> BaseWorkbook]}

InitSave ==
  /\ call = Idle
  /\ run = NewRun
  /\ \E f \in RunFiles :
       book = [phase |-> "file", file |-> f, before |-> f, wb |-> NewWorkbook,
               done |-> 0]

\* lines 845-851 and 360-378: the fetch sequence is over, all_fetched_data is
\* completed and create_or_update_excel loads the workbook (or makes one).
LoadWorkbook ==
  /\ run.status = "running"
  /\ run.pc = Len(RunSteps) + 1
  /\ book.phase = "file"
  /\ run' = [run EXCEPT !.all_fetched_data =
                          ("historical_data" :> run.historical_dfs) @@ @,
                        !.events = Append(@, "load")]
  /\ book' = [book EXCEPT !.phase = "memory", !.wb = LoadOrCreate(book.file)]
  /\ UNCHANGED call

\* lines 381-777, one step at a time.
UpdateSheets ==
  /\ run.status = "running"
  /\ book.phase = "memory"
  /\ book.done < Len(SheetSteps)
  /\ LET step == SheetSteps[book.done + 1]
         wb   == SheetStep(book.wb, run.all_fetched_data, TimeOfRun(1), step)
     IN  /\ book' = [book EXCEPT !.wb = wb, !.done = @ + 1,
                                 !.file = Persisted(book.file, wb)]
         /\ run' = [run EXCEPT !.events = Append(@, step)]
  /\ UNCHANGED call

\* line 779: wb.save(excel_file), and the run is over.
SaveWorkbook ==
  /\ run.status = "running"
  /\ book.phase = "memory"
  /\ book.done = Len(SheetSteps)
  /\ book' = [book EXCEPT !.phase = "saved",
                          !.file = [state |-> "ok", wb |-> book.wb]]
  /\ run' = [run EXCEPT !.status = "done", !.events = Append(@, "save")]
  /\ UNCHANGED call

\* The process ends before it finished.
Interrupt ==
  /\ run.status = "running"
  /\ run' = [run EXCEPT !.status = "interrupted"]
  /\ UNCHANGED <<call, book>>

NextSave ==
  \/ FetchPrices
  \/ FetchMarketOverview
  \/ FetchGlobalMetrics
  \/ FetchFearGreed
  \/ FetchHistory
  \/ LoadWorkbook
  \/ UpdateSheets
  \/ SaveWorkbook
  \/ Interrupt

SpecSave == InitSave /\ [][NextSave]_vars

(***************************************************************************)
(* Claims about the save (checked under SpecSave)                           *)
(***************************************************************************)
\* The run ended before its save.
EndedEarly == run.status \in {"aborted", "interrupted"}

Saved == "save" \in Range(run.events)

\* The steps taken are the whole of create_or_update_excel, in order.
AllStepsTaken ==
  /\ Len(run.events) >= Len(SheetSteps) + 2
  /\ LET n == Len(run.events)
     IN  /\ run.events[n] = "save"
         /\ SubSeq(run.events, n - Len(SheetSteps), n - 1) = SheetSteps
         /\ run.events[n - Len(SheetSteps) - 1] = "load"

\* C21: the persisted workbook is written only by the one save that ends
\* create_or_update_excel.  Until that save the file is what it was before the
\* run, so a run that ends early, wherever it ends, leaves the file identical
\* to its state before the run; the save comes after every fetch of the run
\* and after all sheet updates and the reordering, happens once, and writes
\* the workbook those steps built.
C21_SingleSaveAtEnd ==
  /\ ~Saved => book.file = book.before
  /\ EndedEarly => book.file = book.before
  /\ Saved =>
       /\ run.status = "done"
       /\ run.pc = Len(RunSteps) + 1
       /\ FetchesBegun = FetchEvents
       /\ AllStepsTaken
       /\ Cardinality({i \in DOMAIN run.events : run.events[i] = "save"}) = 1
       /\ book.file = CreateOrUpdateExcel(book.before, run.all_fetched_data,
                                          TimeOfRun(1))

\* A run interrupted after the reordering and before the save: the workbook in
\* memory holds this run's tables, the file is the one the run found.
C21_Witness ==
  /\ run.status = "interrupted"
  /\ book.phase = "memory"
  /\ book.done = Len(SheetSteps)
  /\ HasFresh(run.all_fetched_data, "market_overview")
  /\ book.before.state = "ok"
  /\ book.wb # book.before.wb
  /\ book.file = book.before

\* A run that saved a file different from the one it found.
C21_Saved ==
  /\ Saved
  /\ book.before.state = "ok"
  /\ book.file # book.before

====
